---- MODULE Spec2Model ----
(***************************************************************************)
(* BioAgentic: the research graph (backend/graph.py, backend/server.py,    *)
(* backend/agents/*.py) and the trial -> publication linking pipeline      *)
(* (backend/agents/linking/*.py).                                          *)
(*                                                                         *)
(* Texts are abstracted: a gateway response is a value of Resp, a          *)
(* transcript (history) is the sequence of the labelled blocks appended to *)
(* it, a citation is the record of the fields that identify it.            *)
(***************************************************************************)
EXTENDS Integers, Sequences, FiniteSets, TLC

\* ---------------------------------------------------------------- bounds
MaxRounds == 2      \* largest rounds value a request carries
NegRounds == 1      \* how many negative rounds values a request may carry
NumResp == 1        \* distinct gateway response texts
MaxCit == 1         \* citations one source returns at most
MaxTrials == 2      \* trials a linking run is given or finds at most
MaxCand == 1        \* candidates in a list the ranking gateway returns at most
MaxPubs == 6        \* publications one extract_batch call is given at most
MaxCandT == 4       \* candidates one publication search returns at most
MaxNctHits == 6     \* citations the structured search of one trial returns at most
MaxHeurHits == 1    \* citations the heuristic search of one trial returns at most
MaxFvCands == 4     \* candidates of the one record a validation call is given at most
MaxRecs == 2        \* records a validation call is given at most
MaxFuRounds == 6    \* largest rounds value a follow-up request carries

\* ------------------------------------------------------ program constants
DEFAULT_DEBATE_ROUNDS == 2
MAX_CONCURRENT == 3     \* extract_batch's max_concurrent
BATCH_CAP == 5          \* extract_batch: publications[:5]
TOP_CANDIDATES == 3     \* run_linking_pipeline: candidates[:3]
\* search_papers: range(5)
MAX_ATTEMPTS == 5
\* followup_research: max(1, min(req.rounds, 5))
MAX_FOLLOWUP_ROUNDS == 5

Resp == 1..NumResp

\* The rounds field of ResearchRequest is Optional[int]: <<>> is None, <<n>> is n.
RequestRounds == {<<>>} \cup {<<n>> : n \in (0 - NegRounds)..MaxRounds}

\* req.rounds or DEFAULT_DEBATE_ROUNDS
EffectiveRounds(r) ==
    IF r = <<>> THEN DEFAULT_DEBATE_ROUNDS
    ELSE IF r[1] = 0 THEN DEFAULT_DEBATE_ROUNDS ELSE r[1]

PIPELINE_ORDER ==
    << "analyzer", "trials_scout", "literature_miner",
       "hypothesis_generator", "debate", "synthesizer" >>

\* PIPELINE_ORDER.index(node_name)
IndexOf(seq, x) == CHOOSE i \in 1..Len(seq) : seq[i] = x

\* a wiring in which hypothesis_generator leads straight to synthesizer
MutEdge(n) ==
    CASE n = "analyzer" -> "trials_scout"
      [] n = "trials_scout" -> "literature_miner"
      [] n = "literature_miner" -> "hypothesis_generator"
      [] n = "hypothesis_generator" -> "synthesizer"
      [] n = "debate" -> "synthesizer"
      [] n = "synthesizer" -> "END"

EntryPoint == "analyzer"

\* build_graph: entry point and edges
Edge(n) ==
    CASE n = "analyzer" -> "trials_scout"
      [] n = "trials_scout" -> "literature_miner"
      [] n = "literature_miner" -> "hypothesis_generator"
      [] n = "hypothesis_generator" -> "debate"
      [] n = "debate" -> "synthesizer"
      [] n = "synthesizer" -> "END"

\* _build_initial_state
BuildInitialState(target, rounds, clarification) ==
    [ target |-> target,
      clarification |-> clarification,
      analysis |-> "",
      search_criteria |-> "empty",
      api_data |-> [x \in {} |-> 0],
      hypotheses |-> 0,
      debate |-> [round |-> 0, max_rounds |-> rounds, history |-> <<>>],
      brief |-> 0,
      agents_log |-> <<>>,
      citations |-> <<>> ]

\* a graph that keeps the analysis only while a node's update carries it
MutMergeUpdate(st, upd) ==
    [k \in DOMAIN st |-> IF k \in DOMAIN upd THEN upd[k]
                          ELSE IF k = "analysis" THEN "" ELSE st[k]]

\* BiotechState declares no reducer for any key, so the graph writes every key
\* of a node's update over the state's value of that key.
MergeUpdate(st, upd) ==
    [k \in DOMAIN st |-> IF k \in DOMAIN upd THEN upd[k] ELSE st[k]]

VARIABLES
    req_rounds,     \* the request's rounds
    mode,           \* "invoke" (/research) or "stream" (/research/stream)
    pc,             \* the node the graph runs next, "END", "error" or "done"
    state,          \* the graph's BiotechState
    chunks,         \* what astream has yielded: <<[node, update], ...>>
    events,         \* the SSE events sent so far
    all_citations,  \* stream_research's all_citations
    response,       \* /research: the HTTP response (status 0: none yet)
    llm_calls,      \* prompt keys of the gateway calls made, in order
    raw_response,   \* TargetAnalyzer.call: [st: "none", "raised" or "returned"; text: what acall_llm returned]
    dpc,            \* Debate.call's position
    d_start,        \* Debate.call: current_round
    d_max,          \* Debate.call: max_rounds
    d_r,            \* Debate.call: r
    d_history,      \* Debate.call: history
    d_log,          \* Debate.call: log_entries
    l_pc,           \* run_linking_pipeline's position
    l_max_trials,   \* its max_trials argument
    l_nct_ids,      \* nct_ids: the argument (<<>>: None or []; 0: an empty id), then step 1's list
    l_search,       \* step 1's search: [st: "none", "raised" or "returned"; n: len(trial_list); ids: trial_list]
    l_enriched,     \* enriched_records: <<[nct_id, error], ...>>
    l_valid,        \* valid_records
    l_records,      \* trial_records
    l_i,            \* index of the trial the running loop handles next
    l_validated,    \* validated, what validate_links returned
    l_events,       \* the events yielded so far
    l_calls,        \* the calls made: gateway, registry and search calls, in order
    t_kind,         \* the coroutine whose tasks are followed: "linking", "batch" or "literature"
    t_pc,           \* its position
    t_n,            \* len(nct_ids) of the linking run, len(publications) of the batch
    t_tasks,        \* every task dispatched so far, in the order of its dispatch
    t_order,        \* the tasks of the pending gather, in the order they finished
    t_sem,          \* extract_batch's semaphore: the permits left
    t_results,      \* what the last gather returned
    t_valid,        \* valid_records
    t_records,      \* trial_records
    t_i,            \* index of the trial the running loop handles next
    t_events,       \* the events yielded so far
    pl,             \* the frame of one link_trial_to_publications call
    xp,             \* the frame of one extract_publication_data call
    fv,             \* the frame of one validate_links or _fallback_validation call
    tc,             \* the frame of one call of a data-source tool
    fu              \* the frame of one followup_research run

researchVars ==
    << req_rounds, mode, pc, state, chunks, events, all_citations, response,
       llm_calls, raw_response, dpc, d_start, d_max, d_r, d_history, d_log >>

linkVars ==
    << l_pc, l_max_trials, l_nct_ids, l_search, l_enriched, l_valid, l_records,
       l_i, l_validated, l_events, l_calls >>

taskVars ==
    << t_kind, t_pc, t_n, t_tasks, t_order, t_sem, t_results, t_valid,
       t_records, t_i, t_events >>

sideVars == << taskVars, pl, xp, fv, tc, fu >>

vars == << researchVars, linkVars, sideVars >>

debateLocals == << dpc, d_start, d_max, d_r, d_history, d_log >>

\* The linking pipeline is not running (the research specifications)
LinkOff ==
    /\ l_pc = "off"
    /\ l_max_trials = 0
    /\ l_nct_ids = <<>>
    /\ l_search = [st |-> "none", n |-> 0, ids |-> <<>>]
    /\ l_enriched = <<>>
    /\ l_valid = <<>>
    /\ l_records = <<>>
    /\ l_i = 0
    /\ l_validated = [t |-> "none", keys |-> {}, shape |-> "", links |-> <<>>, src |-> "none"]
    /\ l_events = <<>>
    /\ l_calls = <<>>

\* No task and no call frame is followed (the specifications of the graph and
\* of the orchestrator)
SideOff ==
    /\ t_kind = "off"
    /\ t_pc = "off"
    /\ t_n = 0
    /\ t_tasks = <<>>
    /\ t_order = <<>>
    /\ t_sem = 0
    /\ t_results = <<>>
    /\ t_valid = <<>>
    /\ t_records = <<>>
    /\ t_i = 0
    /\ t_events = <<>>
    /\ pl = [pc |-> "off"]
    /\ xp = [pc |-> "off"]
    /\ fv = [pc |-> "off"]
    /\ tc = [pc |-> "off"]
    /\ fu = [pc |-> "off"]

\* ------------------------------------------------------------ gateway texts
\* A text the gateway returns: not JSON at all, or a JSON value, possibly
\* wrapped in a ``` fence.  Of a JSON value the model keeps its Python type
\* after json.loads and the names it holds: the keys of an object, the string
\* elements of an array, the names occurring in a string.
JsonValues(K) ==
    { [t |-> ty, names |-> ns] : ty \in {"dict", "list", "str"}, ns \in SUBSET K }
        \cup { [t |-> "scalar", names |-> {}] }

GatewayTexts(K) ==
    { [json |-> FALSE, fenced |-> FALSE, val |-> [t |-> "scalar", names |-> {}]] }
        \cup { [json |-> TRUE, fenced |-> f, val |-> v] : f \in BOOLEAN, v \in JsonValues(K) }

\* Python's `k in v`: a TypeError on a number, a boolean or None
InRaises(v) == v.t = "scalar"
In(k, v) == k \in v.names

\* ------------------------------------------------------------ the analyzer
AnalyzerKeys == {"primary_concepts", "search_queries"}

\* TargetAnalyzer._parse_response followed by search_criteria.get in call:
\* "llm" (the parsed object is returned), "fallback" (_build_fallback) or
\* "raise" (an exception neither except clause catches).
AnalyzerOutcome(raw) ==
    IF ~raw.json \/ raw.fenced THEN "fallback"
    ELSE IF InRaises(raw.val) THEN "raise"
    ELSE IF ~In("primary_concepts", raw.val) \/ ~In("search_queries", raw.val) THEN "fallback"
    ELSE IF raw.val.t = "dict" THEN "llm" ELSE "raise"

\* ------------------------------------------------------------ SSE events
Event(e, n, a, c, cits) ==
    [event |-> e, node |-> n, agent |-> a, content |-> c, citations |-> cits]

\* An agent name: <<"Advocate", 2>> is "Advocate (R2)", <<"Synthesizer", 0>> is "Synthesizer".
NoAgent == << "", 0 >>

StatusEvent(n) == Event("status", n, NoAgent, 0, <<>>)
NodeCompleteEvent(n) == Event("node_complete", n, NoAgent, 0, <<>>)
AgentEvent(n, entry) == Event("agent", n, entry.agent, entry.content, <<>>)
CitationsEvent(cits) == Event("citations", "", NoAgent, 0, cits)
DoneEvent == Event("done", "", NoAgent, 0, <<>>)
ErrorEvent == Event("error", "", NoAgent, 0, <<>>)

\* update.get("agents_log", []) and update.get("citations", [])
UpdLog(upd) == IF "agents_log" \in DOMAIN upd THEN upd.agents_log ELSE <<>>
UpdCitations(upd) == IF "citations" \in DOMAIN upd THEN upd.citations ELSE <<>>

\* a loop body that announces the next step before node_complete
MutChunkEvents(n, upd) ==
    LET log == UpdLog(upd)
        idx == IndexOf(PIPELINE_ORDER, n)
    IN  (IF idx + 1 <= Len(PIPELINE_ORDER)
          THEN << StatusEvent(PIPELINE_ORDER[idx + 1]) >> ELSE << >>)
        \o << NodeCompleteEvent(n) >>
        \o [i \in 1..Len(log) |-> AgentEvent(n, log[i])]

\* stream_research: the events of one chunk {node_name: update}
ChunkEvents(n, upd) ==
    LET log == UpdLog(upd)
        idx == IndexOf(PIPELINE_ORDER, n)
    IN  << NodeCompleteEvent(n) >>
        \o [i \in 1..Len(log) |-> AgentEvent(n, log[i])]
        \o (IF idx + 1 <= Len(PIPELINE_ORDER)
            THEN << StatusEvent(PIPELINE_ORDER[idx + 1]) >> ELSE << >>)

\* stream_research: all_citations after a chunk
ChunkCitations(old, upd) == IF UpdCitations(upd) # <<>> THEN UpdCitations(upd) ELSE old

\* ------------------------------------------------------------ citations
\* fetch_trials returns trial/publication mappings (no id, no type);
\* _parse_pubmed_xml and _format_results return Citation dicts pm-i and ss-i.
TrialCitations(n) == [i \in 1..n |-> [src |-> "trials", idx |-> i, doi |-> 0]]
PubmedCitations(n) == [i \in 1..n |-> [src |-> "pubmed", idx |-> i, doi |-> i]]
SemanticCitations(n) == [i \in 1..n |-> [src |-> "semantic", idx |-> i, doi |-> i]]

\* a step that returns a dict of its own key only
MutDictSet(d, k, v) == [x \in {k} |-> v]

\* {**d, k: v}
DictSet(d, k, v) == [x \in DOMAIN d \cup {k} |-> IF x = k THEN v ELSE d[x]]

EmptyResponse ==
    [status |-> 0, hypotheses |-> 0, debate_history |-> <<>>, brief |-> 0,
     agents_log |-> <<>>, citations |-> <<>>]

\* -------------------------------------------------------------- the graph
Init ==
    /\ req_rounds \in RequestRounds
    /\ mode \in {"invoke", "stream"}
    /\ pc = EntryPoint
    /\ \E clarification \in {"", "clarified"} :
          state = BuildInitialState("target", EffectiveRounds(req_rounds), clarification)
    /\ chunks = <<>>
    /\ events = IF mode = "stream" THEN << StatusEvent(PIPELINE_ORDER[1]) >> ELSE <<>>
    /\ all_citations = <<>>
    /\ response = EmptyResponse
    /\ llm_calls = <<>>
    /\ raw_response = [st |-> "none"]
    /\ dpc = "idle"
    /\ d_start = 0
    /\ d_max = 0
    /\ d_r = 0
    /\ d_history = <<>>
    /\ d_log = <<>>
    /\ LinkOff
    /\ SideOff

\* A node returned `upd`: the graph merges it, yields the chunk and follows the
\* node's edge; stream_research emits the chunk's events.
CompleteNode(n, upd) ==
    /\ state' = MergeUpdate(state, upd)
    /\ chunks' = Append(chunks, [node |-> n, update |-> upd])
    /\ pc' = Edge(n)
    /\ IF mode = "stream"
       THEN /\ events' = events \o ChunkEvents(n, upd)
            /\ all_citations' = ChunkCitations(all_citations, upd)
       ELSE UNCHANGED << events, all_citations >>
    /\ UNCHANGED << req_rounds, mode, response, linkVars, sideVars >>

\* an except clause that went on to send done
MutErrorTail == << ErrorEvent, DoneEvent >>

\* stream_research's except clause
ErrorTail == << ErrorEvent >>

\* A node raised: astream / ainvoke raise, stream_research's except clause
\* yields the error event, run_research raises HTTPException(500).
AbortRun ==
    /\ pc' = "error"
    /\ IF mode = "stream"
       THEN /\ events' = events \o ErrorTail
            /\ UNCHANGED response
       ELSE /\ response' = [EmptyResponse EXCEPT !.status = 500]
            /\ UNCHANGED events
    /\ UNCHANGED << req_rounds, mode, state, chunks, all_citations, linkVars, sideVars >>

\* TargetAnalyzer.call
Analyzer ==
    /\ pc = "analyzer"
    /\ llm_calls' = Append(llm_calls, "analyzer")
    /\ UNCHANGED debateLocals
    /\ \/ \E raw \in GatewayTexts(AnalyzerKeys) :
            LET out == AnalyzerOutcome(raw) IN
            /\ raw_response' = [st |-> "returned", text |-> raw]
            /\ IF out = "raise" THEN AbortRun
               ELSE CompleteNode("analyzer",
                       [ analysis |-> out,
                         search_criteria |-> out,
                         agents_log |-> << [agent |-> << "Target Analyzer", 0 >>, content |-> out] >> ])
       \/ /\ raw_response' = [st |-> "raised"]
          /\ AbortRun

\* TrialsScout.call
TrialsScout ==
    /\ pc = "trials_scout"
    /\ llm_calls' = Append(llm_calls, "trials_scout")
    /\ UNCHANGED raw_response
    /\ UNCHANGED debateLocals
    /\ \/ \E n \in 0..MaxCit, analysis \in Resp :
            LET trial_citations == TrialCitations(n) IN
            CompleteNode("trials_scout",
                [ api_data |-> DictSet(state.api_data, "trials", n),
                  agents_log |-> << [agent |-> << "Trials Scout", 0 >>, content |-> analysis] >>,
                  citations |-> state.citations \o trial_citations ])
       \/ AbortRun

\* a miner that returned its own citations only
MutLitScoutCitations(existing, new) == new

\* LitScout.call: existing_citations + all_new_citations
LitScoutCitations(existing, new) == existing \o new

LitScout ==
    /\ pc = "literature_miner"
    /\ llm_calls' = Append(llm_calls, "literature_miner")
    /\ UNCHANGED raw_response
    /\ UNCHANGED debateLocals
    /\ \/ \E np \in 0..MaxCit, ns \in 0..MaxCit, analysis \in Resp :
            LET all_new_citations == PubmedCitations(np) \o SemanticCitations(ns)
                api1 == DictSet(state.api_data, "pubmed", np)
                api2 == DictSet(api1, "semantic", ns)
                api3 == DictSet(api2, "papers", << np, ns >>)
            IN
            CompleteNode("literature_miner",
                [ api_data |-> api3,
                  agents_log |-> << [agent |-> << "Literature Miner", 0 >>, content |-> analysis] >>,
                  citations |-> LitScoutCitations(state.citations, all_new_citations) ])
       \/ AbortRun

\* HypothesisGenerator.call
HypothesisGenerator ==
    /\ pc = "hypothesis_generator"
    /\ llm_calls' = Append(llm_calls, "hypothesis_generator")
    /\ UNCHANGED raw_response
    /\ UNCHANGED debateLocals
    /\ \/ \E hypotheses \in Resp :
            CompleteNode("hypothesis_generator",
                [ hypotheses |-> hypotheses,
                  agents_log |-> << [agent |-> << "Hypothesis Generator", 0 >>, content |-> hypotheses] >> ])
       \/ AbortRun

\* Synthesizer.call
Synthesizer ==
    /\ pc = "synthesizer"
    /\ llm_calls' = Append(llm_calls, "synthesizer")
    /\ UNCHANGED raw_response
    /\ UNCHANGED debateLocals
    /\ \/ \E brief \in Resp :
            CompleteNode("synthesizer",
                [ brief |-> brief,
                  agents_log |-> << [agent |-> << "Synthesizer", 0 >>, content |-> brief] >> ])
       \/ AbortRun

\* ---------------------------------------------------------------- debate
\* The roles of one round, in the order Debate.call runs them
Roles == << "Advocate", "Skeptic", "Mediator" >>

\* history += f"\n\n### Round {r+1}/{max_rounds} -- {role}\n{response}"
Block(r, max_rounds, role, text) ==
    [round |-> r + 1, of |-> max_rounds, role |-> role, text |-> text]

\* {"agent": f"{role} (R{r+1})", "content": response}
LogEntry(r, role, text) == [agent |-> << role, r + 1 >>, content |-> text]

\* for r in range(current_round, max_rounds): is there a round r to run
LoopContinues(r, max_rounds) == r < max_rounds

\* Debate.call up to the loop's first test: the reads of state and range()
DebateEnter ==
    /\ pc = "debate"
    /\ dpc = "idle"
    /\ d_start' = state.debate.round
    /\ d_max' = state.debate.max_rounds
    /\ d_history' = state.debate.history
    /\ d_r' = state.debate.round
    /\ d_log' = <<>>
    /\ dpc' = IF LoopContinues(state.debate.round, state.debate.max_rounds)
              THEN "advocate" ELSE "return"
    /\ UNCHANGED << req_rounds, mode, pc, state, chunks, events, all_citations,
                    response, llm_calls, raw_response, linkVars, sideVars >>

\* One role's gateway call and the two appends after it
RoleTurn(role, key, next) ==
    /\ pc = "debate"
    /\ dpc = key
    /\ llm_calls' = Append(llm_calls, key)
    /\ UNCHANGED raw_response
    /\ \/ \E text \in Resp :
            /\ d_history' = Append(d_history, Block(d_r, d_max, role, text))
            /\ d_log' = Append(d_log, LogEntry(d_r, role, text))
            /\ IF key = "mediator"
               THEN /\ d_r' = d_r + 1
                    /\ dpc' = IF LoopContinues(d_r + 1, d_max) THEN "advocate" ELSE "return"
               ELSE /\ d_r' = d_r
                    /\ dpc' = next
            /\ UNCHANGED << req_rounds, mode, pc, state, chunks, events,
                            all_citations, response, d_start, d_max, linkVars, sideVars >>
       \/ /\ AbortRun
          /\ UNCHANGED debateLocals

DebateAdvocate == RoleTurn("Advocate", "advocate", "skeptic")
DebateSkeptic == RoleTurn("Skeptic", "skeptic", "mediator")
DebateMediator == RoleTurn("Mediator", "mediator", "advocate")

\* a debate that published after its first round
MutReturnedRound(current_round, max_rounds) ==
    IF current_round < max_rounds THEN current_round + 1 ELSE max_rounds

\* The round Debate.call writes back
ReturnedRound(current_round, max_rounds) == max_rounds

\* Debate.call's return
DebateReturn ==
    /\ pc = "debate"
    /\ dpc = "return"
    /\ dpc' = "idle"
    /\ UNCHANGED << d_start, d_max, d_r, d_history, d_log, llm_calls, raw_response >>
    /\ CompleteNode("debate",
            [ debate |-> [ round |-> ReturnedRound(d_start, d_max),
                           max_rounds |-> d_max,
                           history |-> d_history ],
              agents_log |-> d_log ])

\* ------------------------------------------------------ after the last node
\* CitationModel(**c): id, type and title are required fields
CitationModelOk(c) == c.src # "trials"

\* stream_research after the astream loop
StreamTail(cits) ==
    (IF cits # <<>> THEN << CitationsEvent(cits) >> ELSE << >>) \o << DoneEvent >>

StreamFinish ==
    /\ pc = "END"
    /\ mode = "stream"
    /\ events' = events \o StreamTail(all_citations)
    /\ pc' = "done"
    /\ UNCHANGED << req_rounds, mode, state, chunks, all_citations, response,
                    llm_calls, raw_response, debateLocals, linkVars, sideVars >>

\* run_research after ainvoke
InvokeReturn ==
    /\ pc = "END"
    /\ mode = "invoke"
    /\ pc' = "done"
    /\ response' =
         IF \A i \in 1..Len(state.citations) : CitationModelOk(state.citations[i])
         THEN [ status |-> 200,
                hypotheses |-> state.hypotheses,
                debate_history |-> state.debate.history,
                brief |-> state.brief,
                agents_log |-> state.agents_log,
                citations |-> state.citations ]
         ELSE [EmptyResponse EXCEPT !.status = 500]
    /\ UNCHANGED << req_rounds, mode, state, chunks, events, all_citations,
                    llm_calls, raw_response, debateLocals, linkVars, sideVars >>

Next ==
    \/ Analyzer
    \/ TrialsScout
    \/ LitScout
    \/ HypothesisGenerator
    \/ DebateEnter
    \/ DebateAdvocate
    \/ DebateSkeptic
    \/ DebateMediator
    \/ DebateReturn
    \/ Synthesizer
    \/ StreamFinish
    \/ InvokeReturn

Spec == Init /\ [][Next]_vars

\* ------------------------------------------- the debate node on any state
\* The transcript a debate of k rounds leaves behind (what Debate.call returns
\* for max_rounds = k from an empty transcript).
PriorTranscript(k) ==
    [j \in 1..(3 * k) |-> Block((j - 1) \div 3, k, Roles[((j - 1) % 3) + 1], 1)]

\* The graph entered at the debate node with a debate state left by an earlier
\* debate of k rounds and a max_rounds of R.
InitDebate ==
    /\ req_rounds \in RequestRounds
    /\ mode \in {"invoke", "stream"}
    /\ pc = "debate"
    /\ \E k \in 0..MaxRounds :
          state = [BuildInitialState("target", EffectiveRounds(req_rounds), "") EXCEPT
                      !.hypotheses = 1,
                      !.debate = [ round |-> k,
                                   max_rounds |-> EffectiveRounds(req_rounds),
                                   history |-> PriorTranscript(k) ]]
    /\ chunks = <<>>
    /\ events = <<>>
    /\ all_citations = <<>>
    /\ response = EmptyResponse
    /\ llm_calls = <<>>
    /\ raw_response = [st |-> "none"]
    /\ dpc = "idle"
    /\ d_start = 0
    /\ d_max = 0
    /\ d_r = 0
    /\ d_history = <<>>
    /\ d_log = <<>>
    /\ LinkOff
    /\ SideOff

NextDebate ==
    \/ DebateEnter
    \/ DebateAdvocate
    \/ DebateSkeptic
    \/ DebateMediator
    \/ DebateReturn

SpecDebate == InitDebate /\ [][NextDebate]_vars

\* ================================================== the linking pipeline
MutMax(a, b) == a
Max(a, b) == IF a >= b THEN a ELSE b

\* Python values the ranking gateway can put where a candidate list is
\* expected: k is the value's type, items its elements (the characters of a
\* string, the keys of a dict); a number, a boolean or None has no len().
PyList(items) == [k |-> "list", items |-> items]
PyLenRaises(v) == v.k = "scalar"
PyLen(v) == Len(v.items)
PyTruthy(v) == Len(v.items) > 0
\* v[:n]: a dict and a scalar cannot be sliced
PySliceRaises(v) == v.k \in {"dict", "scalar"}
PySlice(v, n) ==
    [k |-> v.k, items |-> SubSeq(v.items, 1, IF Len(v.items) < n THEN Len(v.items) ELSE n)]

\* One element of a candidate list.  dict: it is a JSON object (it has .get);
\* conf_ok: its confidence compares with a number.
Item(pmid, conf, ok, mt) ==
    [dict |-> TRUE, pmid |-> pmid, confidence |-> conf, conf_ok |-> ok, match_type |-> mt]
JunkItem ==
    [dict |-> FALSE, pmid |-> 0, confidence |-> 0, conf_ok |-> FALSE, match_type |-> ""]

ConfValues == {20, 60, 90}
AvailTypes == {"open_access", "on_request", "restricted", "not_stated"}

\* What the searches of one trial return: the structured search's a citations
\* followed by the heuristic search's b
RawCitations(a, b, t) ==
    [i \in 1..a |-> [pmid |-> i, title_has_nct |-> t]]
        \o [i \in 1..b |-> [pmid |-> a + i, title_has_nct |-> t]]

\* link_trial_to_publications: `if len(nct_citations) < 3`
MutHeuristicIssued(a) == a <= 3
HeuristicIssued(a) == a < 3

\* The texts the ranking gateway can answer with
ItemChoices ==
    { Item(p, c, TRUE, "gateway") : p \in 1..MaxCit, c \in ConfValues }
        \cup { Item(1, 0, FALSE, "gateway"), JunkItem }
ItemSeqs == UNION { [1..n -> ItemChoices] : n \in 0..MaxCand }
CandValues ==
    { PyList(its) : its \in ItemSeqs }
        \cup { [k |-> ty, items |-> its] :
                 ty \in {"str", "dict"}, its \in { <<>>, << JunkItem >> } }
        \cup { [k |-> "scalar", items |-> <<>>] }
RankingTexts ==
    { [kind |-> kd, payload |-> PyList(<<>>)] :
        kd \in { "raise", "invalid", "object_other", "object_empty",
                 "scalar_truthy", "scalar_falsy", "string", "string_empty" } }
        \cup { [kind |-> "array", payload |-> PyList(its)] : its \in ItemSeqs }
        \cup { [kind |-> "object_candidates", payload |-> v] : v \in CandValues }

\* link_trial_to_publications, the except clause: all_citations[:5]
MutRankingFallback(raw) ==
    PyList([i \in 1..Len(raw) |->
              Item(raw[i].pmid, IF raw[i].title_has_nct THEN 40 ELSE 25, TRUE,
                   "metadata_heuristic")])
RankingFallback(raw) ==
    PyList([i \in 1..(IF Len(raw) < 5 THEN Len(raw) ELSE 5) |->
              Item(raw[i].pmid, IF raw[i].title_has_nct THEN 40 ELSE 25, TRUE,
                   "metadata_heuristic")])

\* link_trial_to_publications from the gateway call on
RankedCandidates(raw, text) ==
    CASE text.kind \in {"raise", "invalid"} -> RankingFallback(raw)
      [] text.kind = "array" -> text.payload
      [] text.kind = "object_candidates" -> text.payload
      [] text.kind = "object_other" -> PyList(<< Item(0, 30, TRUE, "") >>)
      [] text.kind \in {"scalar_truthy", "string"} -> PyList(<< JunkItem >>)
      [] OTHER -> PyList(<<>>)

\* ------------------------------------------------------ full-text extraction
FullText(pmid, mentioned, available, avail) ==
    [pmid |-> pmid, nct_mentioned |-> mentioned, fulltext_available |-> available,
     availability_type |-> avail]

\* What one extraction meets: whether a full text exists, whether it mentions
\* the trial id, what the rule-based scan finds, and the classification
\* gateway's answer (gw: "raise", "invalid", "nondict", "badlists" or "dict"
\* with availability_type avail).
\* A field that the code does not come to read has one value.
ExtractScenarios ==
    { sc \in [ fulltext : BOOLEAN, mention : BOOLEAN, has_section : BOOLEAN,
               repos : BOOLEAN,
               gw : {"raise", "invalid", "nondict", "badlists", "dict"},
               avail : AvailTypes \cup {"other"} ] :
        /\ ~sc.fulltext => ~sc.mention /\ ~sc.has_section /\ ~sc.repos
        /\ ~(sc.has_section \/ sc.repos) => sc.gw = "raise"
        /\ sc.gw # "dict" => sc.avail = "not_stated" }

\* extract_publication_data
ExtractPublicationData(pmid, nct_id, sc) ==
    IF ~sc.fulltext THEN FullText(pmid, FALSE, FALSE, "not_stated")
    ELSE LET mentioned == IF nct_id # 0 THEN sc.mention ELSE FALSE
             avail ==
                IF sc.has_section \/ sc.repos
                THEN IF sc.gw = "dict" THEN sc.avail
                     ELSE IF sc.repos THEN "open_access" ELSE "not_stated"
                ELSE "not_stated"
         IN  FullText(pmid, mentioned, TRUE, avail)

\* extract_batch: pub.get raises on an element that is no object
ExtractBatchRaises(pubs) ==
    \E i \in 1..(IF Len(pubs) < 5 THEN Len(pubs) ELSE 5) : ~pubs[i].dict

\* ---------------------------------------------------------------- validation
\* One trial record of the orchestrator
\* (repository_hits feeds only the datasets of the report and is left out)
TrialRecord(nct, cands, ft) ==
    [nct_id |-> nct, pubmed_candidates |-> cands, fulltext_data |-> ft]

\* What validate_links hands back.  t: the value's type; keys: the names
\* `in` finds in it; shape: what trial_links is ("entries": a list of
\* objects, "falsy": an empty or null value, "malformed": anything else);
\* src: who built it ("gateway": the parsed text as it came; "fallback":
\* _fallback_validation; "wrapped": the parsed text's str() as the summary of
\* an empty result; "no_trials": the answer to an empty record list).
Validated(t, keys, shape, links, src) ==
    [t |-> t, keys |-> keys, shape |-> shape, links |-> links, src |-> src]
NoData == Validated("none", {}, "", <<>>, "none")

LinkEntry(nct, pubs, avail) ==
    [nct_id |-> nct, publications |-> pubs, data_availability |-> avail]
GatewayLinks(n) == [i \in 1..n |-> LinkEntry(i, <<>>, "gateway")]

\* The texts the validation gateway can answer with
ValidatorJson ==
    { Validated("dict", ks, "", <<>>, "gateway") : ks \in SUBSET {"summary"} }
        \cup { Validated("dict", ks \cup {"trial_links"}, "entries", GatewayLinks(n), "gateway") :
                 ks \in SUBSET {"summary"}, n \in 1..MaxTrials }
        \cup { Validated("dict", ks \cup {"trial_links"}, sh, <<>>, "gateway") :
                 ks \in SUBSET {"summary"}, sh \in {"falsy", "malformed"} }
        \cup { Validated(ty, ks, "", <<>>, "gateway") :
                 ty \in {"list", "str"}, ks \in SUBSET {"trial_links"} }
        \cup { Validated("scalar", {}, "", <<>>, "gateway") }
ValidatorTexts ==
    { [kind |-> kd, val |-> NoData] : kd \in {"raise", "invalid"} }
        \cup { [kind |-> "json", val |-> v] : v \in ValidatorJson }

MutTier(confidence) ==
    IF confidence > 70 THEN "high" ELSE IF confidence >= 50 THEN "medium" ELSE "low"
Tier(confidence) ==
    IF confidence >= 70 THEN "high" ELSE IF confidence >= 50 THEN "medium" ELSE "low"

\* c.get("confidence", 30)
Confidence(c) == IF "confidence" \in DOMAIN c THEN c.confidence ELSE 30

\* an upgrade loop that sets the tier and leaves the score
MutFallbackPublications(cands, fulltext) ==
    [i \in 1..Len(cands) |->
        LET c == cands[i]
            confirmed == \E j \in 1..Len(fulltext) :
                            fulltext[j].pmid = c.pmid /\ fulltext[j].nct_mentioned
        IN  [pmid |-> c.pmid,
             confidence_tier |-> IF confirmed THEN "high" ELSE Tier(Confidence(c)),
             confidence_score |-> Confidence(c)]]

\* _fallback_validation, the publications of one record after the upgrade loop
FallbackPublications(cands, fulltext) ==
    [i \in 1..Len(cands) |->
        LET c == cands[i]
            confirmed == \E j \in 1..Len(fulltext) :
                            fulltext[j].pmid = c.pmid /\ fulltext[j].nct_mentioned
        IN  [pmid |-> c.pmid,
             confidence_tier |-> IF confirmed THEN "high" ELSE Tier(Confidence(c)),
             confidence_score |-> IF confirmed THEN Max(Confidence(c), 80)
                                  ELSE Confidence(c)]]

\* _fallback_validation, data_avail
MutDataAvailability(fulltext) ==
    LET avail_types == { fulltext[j].availability_type : j \in 1..Len(fulltext) }
    IN  IF "on_request" \in avail_types THEN "Data available on request"
        ELSE IF "open_access" \in avail_types THEN "Open-access data available"
        ELSE IF "restricted" \in avail_types THEN "Restricted access data"
        ELSE "No data availability information found"
DataAvailability(fulltext) ==
    LET avail_types == { fulltext[j].availability_type : j \in 1..Len(fulltext) }
    IN  IF "open_access" \in avail_types THEN "Open-access data available"
        ELSE IF "on_request" \in avail_types THEN "Data available on request"
        ELSE IF "restricted" \in avail_types THEN "Restricted access data"
        ELSE "No data availability information found"

\* _fallback_validation raises where candidates[:3] cannot be taken, an
\* element has no .get, or its confidence does not compare with a number
FallbackRaises(recs) ==
    \E i \in 1..Len(recs) :
        LET cands == recs[i].pubmed_candidates
        IN  \/ PySliceRaises(cands)
            \/ \E j \in 1..Len(PySlice(cands, 3).items) :
                    ~cands.items[j].dict \/ ~cands.items[j].conf_ok

\* _fallback_validation: one trial_links entry per record
MutFallbackValidation(recs) ==
    LET kept == SelectSeq(recs, LAMBDA r : PyTruthy(r.pubmed_candidates))
    IN  Validated("dict", {"trial_links", "summary"}, "entries",
                  [i \in 1..Len(kept) |->
                      LinkEntry(kept[i].nct_id,
                                FallbackPublications(PySlice(kept[i].pubmed_candidates, 3).items,
                                                     kept[i].fulltext_data),
                                DataAvailability(kept[i].fulltext_data))],
                  "fallback")
FallbackValidation(recs) ==
    Validated("dict", {"trial_links", "summary"}, "entries",
              [i \in 1..Len(recs) |->
                  LinkEntry(recs[i].nct_id,
                            FallbackPublications(PySlice(recs[i].pubmed_candidates, 3).items,
                                                 recs[i].fulltext_data),
                            DataAvailability(recs[i].fulltext_data))],
              "fallback")

NoTrialsResult == Validated("dict", {"trial_links", "summary"}, "falsy", <<>>, "no_trials")
WrappedResult == Validated("dict", {"trial_links", "summary"}, "falsy", <<>>, "wrapped")

\* `"trial_links" not in validated`: `in` raises on a number, a boolean, None
UsesFallback(text) ==
    text.kind \in {"raise", "invalid"} \/ text.val.t = "scalar"

\* validate_links for a non-empty record list: [raises, val]
ValidateLinks(recs, text) ==
    IF UsesFallback(text)
    THEN IF FallbackRaises(recs) THEN [raises |-> TRUE, val |-> NoData]
         ELSE [raises |-> FALSE, val |-> FallbackValidation(recs)]
    ELSE IF "trial_links" \notin text.val.keys
         THEN [raises |-> FALSE, val |-> WrappedResult]
         ELSE [raises |-> FALSE, val |-> text.val]

\* format_linking_markdown: validated.get needs an object; the loops need
\* trial_links to be a list of objects
FormatRaises(validated) ==
    validated.t # "dict" \/ validated.shape = "malformed"

\* -------------------------------------------------------------- orchestrator
\* nums: the numbers the content states
LEventN(e, a, c, nums, d) ==
    [event |-> e, agent |-> a, content |-> c, nums |-> nums, data |-> d]
LEvent(e, a, c, d) == LEventN(e, a, c, <<>>, d)
LStatus(a) == LEvent("status", a, "", NoData)
LAgent(a, c) == LEvent("agent", a, c, NoData)
LAgentN(a, c, nums) == LEventN("agent", a, c, nums, NoData)
LError == LEvent("error", "", "Failed to fetch trials", NoData)
LResult(validated) == LEvent("result", "", "markdown", validated)
LDone == LEvent("done", "", "", NoData)

\* a step 1 that forgot the [:max_trials]
MutTake(seq, n) == seq

\* seq[:n]
Take(seq, n) == SubSeq(seq, 1, IF Len(seq) < n THEN Len(seq) ELSE n)
NonEmptyIds(ids) == SelectSeq(ids, LAMBDA nct : nct # 0)
\* the id lists a caller passes and a search returns; 0 is an empty id, and
\* the ids that are not empty are numbered in their order in the list
NctIdLists ==
    { ids \in UNION { [1..n -> 0..MaxTrials] : n \in 1..MaxTrials } :
        NonEmptyIds(ids) = [i \in 1..Len(NonEmptyIds(ids)) |-> i] }

\* an exception leaves the generator: nothing more is yielded
LinkAbort ==
    /\ l_pc' = "aborted"
    /\ UNCHANGED << l_max_trials, l_nct_ids, l_valid, l_records, l_i >>

\* Step 1, `if nct_ids:` - the caller's ids, filtered and capped
LUseSupplied ==
    /\ l_pc = "start"
    /\ l_nct_ids # <<>>
    /\ l_nct_ids' = Take(NonEmptyIds(l_nct_ids), l_max_trials)
    /\ l_events' = l_events \o << LStatus("Linking Orchestrator"),
                                  LAgent("Linking Orchestrator", "Starting") >>
    /\ l_pc' = "enrich"
    /\ UNCHANGED << l_max_trials, l_valid, l_records, l_i, l_calls >>
    /\ UNCHANGED << l_search, l_enriched >>
    /\ UNCHANGED l_validated
    /\ UNCHANGED << researchVars, sideVars >>

\* a branch that reported the empty search and went on without `done`
MutNoTrialsTail == << LAgent("Linking Orchestrator", "No clinical trials found") >>

\* `if not trial_list:` - the message, then done, then return
NoTrialsTail ==
    << LAgent("Linking Orchestrator", "No clinical trials found"), LDone >>

\* Step 1, `else:` - search the registry by target
LSearchTrials ==
    /\ l_pc = "start"
    /\ l_nct_ids = <<>>
    /\ l_calls' = Append(l_calls, "fetch_trials")
    /\ \/ /\ l_search' = [st |-> "raised", n |-> 0, ids |-> <<>>]
          /\ l_events' = l_events \o << LStatus("Linking Orchestrator"), LError >>
          /\ l_pc' = "returned"
          /\ UNCHANGED l_nct_ids
       \/ /\ l_search' = [st |-> "returned", n |-> 0, ids |-> <<>>]
          /\ l_events' = l_events \o << LStatus("Linking Orchestrator") >> \o NoTrialsTail
          /\ l_pc' = "returned"
          /\ UNCHANGED l_nct_ids
       \/ \E trial_list \in NctIdLists :
             /\ l_search' = [st |-> "returned", n |-> Len(trial_list), ids |-> trial_list]
             /\ l_nct_ids' = Take(NonEmptyIds(trial_list), l_max_trials)
             /\ l_events' = l_events \o << LStatus("Linking Orchestrator"),
                                           LAgent("Linking Orchestrator", "Found") >>
             /\ l_pc' = "enrich"
    /\ UNCHANGED << l_max_trials, l_valid, l_records, l_i >>
    /\ UNCHANGED l_enriched
    /\ UNCHANGED l_validated
    /\ UNCHANGED << researchVars, sideVars >>

\* a filter that kept the errored records too
MutValidRecords(enriched) == [i \in 1..Len(enriched) |-> enriched[i].nct_id]

\* `valid_records = [r for r in enriched_records if not r.get("error")]`,
\* each record kept as its nct_id
ValidRecords(enriched) ==
    LET kept == SelectSeq(enriched, LAMBDA r : ~r.error)
    IN  [i \in 1..Len(kept) |-> kept[i].nct_id]

\* Step 2: one enrich_trial per id, gathered; errored records dropped
LEnrich ==
    /\ l_pc = "enrich"
    /\ \E errored \in SUBSET (1..Len(l_nct_ids)) :
          l_enriched' = [i \in 1..Len(l_nct_ids) |->
                            [nct_id |-> l_nct_ids[i], error |-> i \in errored]]
    /\ l_valid' = ValidRecords(l_enriched')
    /\ l_calls' = l_calls \o [i \in 1..Len(l_nct_ids) |-> "enrich_trial"]
    /\ l_events' = l_events \o << LStatus("Registry Enricher"),
                                  LAgentN("Registry Enricher", "Enriched",
                                          << Len(l_valid'), Len(l_nct_ids) >>),
                                  LStatus("PubMed Linker") >>
    /\ l_records' = <<>>
    /\ l_i' = 1
    /\ l_pc' = "link"
    /\ UNCHANGED << l_max_trials, l_nct_ids >>
    /\ UNCHANGED l_search
    /\ UNCHANGED l_validated
    /\ UNCHANGED << researchVars, sideVars >>

\* Step 3, one pass of the loop: link_trial_to_publications and
\* search_repositories for one valid record
LLinkTrial ==
    /\ l_pc = "link"
    /\ l_i <= Len(l_valid)
    /\ \E a \in 0..MaxCit, t \in BOOLEAN : \E b \in 0..(MaxCit - a) :
          LET raw == RawCitations(a, IF HeuristicIssued(a) THEN b ELSE 0, t)
              searches == << "search_by_nct" >>
                             \o (IF HeuristicIssued(a) THEN << "search_by_trial_metadata" >>
                                 ELSE <<>>)
          IN  IF raw = <<>>
              THEN /\ l_records' = Append(l_records,
                                      TrialRecord(l_valid[l_i], PyList(<<>>), <<>>))
                   /\ l_calls' = l_calls \o searches \o << "search_repositories" >>
              ELSE \E text \in RankingTexts :
                      /\ l_records' = Append(l_records,
                                         TrialRecord(l_valid[l_i], RankedCandidates(raw, text),
                                                     <<>>))
                      /\ l_calls' = l_calls \o searches
                                       \o << "pubmed_linker", "search_repositories" >>
    /\ l_i' = l_i + 1
    /\ UNCHANGED << l_pc, l_max_trials, l_nct_ids, l_valid, l_events >>
    /\ UNCHANGED << l_search, l_enriched >>
    /\ UNCHANGED l_validated
    /\ UNCHANGED << researchVars, sideVars >>

RECURSIVE SumLen(_)
SumLen(recs) ==
    IF recs = <<>> THEN 0 ELSE PyLen(Head(recs).pubmed_candidates) + SumLen(Tail(recs))

\* after the loop: total_pubs takes len() of every candidate value
LLinkDone ==
    /\ l_pc = "link"
    /\ l_i > Len(l_valid)
    /\ IF \E i \in 1..Len(l_records) : PyLenRaises(l_records[i].pubmed_candidates)
       THEN LinkAbort /\ UNCHANGED l_events
       ELSE /\ l_events' = l_events \o << LAgent("PubMed Linker", "Found") >>
                              \o (IF SumLen(l_records) > 0
                                  THEN << LStatus("Full-Text Extractor") >> ELSE <<>>)
            /\ l_pc' = IF SumLen(l_records) > 0 THEN "extract" ELSE "validate"
            /\ l_i' = 1
            /\ UNCHANGED << l_max_trials, l_nct_ids, l_valid, l_records >>
    /\ UNCHANGED l_calls
    /\ UNCHANGED << l_search, l_enriched >>
    /\ UNCHANGED l_validated
    /\ UNCHANGED << researchVars, sideVars >>

\* Step 4, one pass of the loop: extract_batch on the record's top three
LExtractTrial ==
    /\ l_pc = "extract"
    /\ l_i <= Len(l_records)
    /\ LET rec == l_records[l_i]
           candidates == rec.pubmed_candidates
           pubs == PySlice(candidates, 3).items
       IN  IF ~PyTruthy(candidates)
           THEN /\ l_i' = l_i + 1
                /\ UNCHANGED << l_pc, l_max_trials, l_nct_ids, l_valid, l_records, l_calls >>
           ELSE IF PySliceRaises(candidates) \/ ExtractBatchRaises(pubs)
           THEN LinkAbort /\ UNCHANGED l_calls
           ELSE \E scs \in [1..Len(pubs) -> ExtractScenarios] :
                   /\ l_records' =
                         [l_records EXCEPT ![l_i].fulltext_data =
                             [j \in 1..Len(pubs) |->
                                 ExtractPublicationData(pubs[j].pmid, rec.nct_id, scs[j])]]
                   /\ l_calls' = l_calls \o
                         SelectSeq([j \in 1..Len(pubs) |->
                                       IF scs[j].fulltext /\ (scs[j].has_section \/ scs[j].repos)
                                       THEN "fulltext_extractor" ELSE ""],
                                   LAMBDA c : c # "")
                   /\ l_i' = l_i + 1
                   /\ UNCHANGED << l_pc, l_max_trials, l_nct_ids, l_valid >>
    /\ UNCHANGED l_events
    /\ UNCHANGED << l_search, l_enriched >>
    /\ UNCHANGED l_validated
    /\ UNCHANGED << researchVars, sideVars >>

LExtractDone ==
    /\ l_pc = "extract"
    /\ l_i > Len(l_records)
    /\ l_events' = Append(l_events, LAgent("Full-Text Extractor", "Analysed"))
    /\ l_pc' = "validate"
    /\ UNCHANGED << l_max_trials, l_nct_ids, l_valid, l_records, l_i, l_calls >>
    /\ UNCHANGED << l_search, l_enriched >>
    /\ UNCHANGED l_validated
    /\ UNCHANGED << researchVars, sideVars >>

\* Step 5 and the final result
LFinish(validated) ==
    /\ l_validated' = validated
    /\ IF FormatRaises(validated)
       THEN /\ LinkAbort
            /\ l_events' = Append(l_events, LStatus("Link Validator"))
       ELSE /\ l_events' = l_events \o << LStatus("Link Validator"),
                                          LAgent("Link Validator", "Validation complete"),
                                          LResult(validated), LDone >>
            /\ l_pc' = "returned"
            /\ UNCHANGED << l_max_trials, l_nct_ids, l_valid, l_records, l_i >>

LValidate ==
    /\ l_pc = "validate"
    /\ IF l_records = <<>>
       THEN LFinish(NoTrialsResult) /\ UNCHANGED l_calls
       ELSE \E text \in ValidatorTexts :
               /\ l_calls' = Append(l_calls, "link_validator")
               /\ LET res == ValidateLinks(l_records, text)
                  IN  IF res.raises
                      THEN /\ LinkAbort
                           /\ l_events' = Append(l_events, LStatus("Link Validator"))
                           /\ UNCHANGED l_validated
                      ELSE LFinish(res.val)
    /\ UNCHANGED << l_search, l_enriched >>
    /\ UNCHANGED << researchVars, sideVars >>

ResearchOff ==
    /\ req_rounds = <<>>
    /\ mode = "invoke"
    /\ pc = "off"
    /\ state = BuildInitialState("", DEFAULT_DEBATE_ROUNDS, "")
    /\ chunks = <<>>
    /\ events = <<>>
    /\ all_citations = <<>>
    /\ response = EmptyResponse
    /\ llm_calls = <<>>
    /\ raw_response = [st |-> "none"]
    /\ dpc = "idle"
    /\ d_start = 0
    /\ d_max = 0
    /\ d_r = 0
    /\ d_history = <<>>
    /\ d_log = <<>>

InitLink ==
    /\ ResearchOff
    /\ SideOff
    /\ l_pc = "start"
    /\ l_max_trials \in 1..MaxTrials
    /\ l_nct_ids \in {<<>>} \cup NctIdLists
    /\ l_search = [st |-> "none", n |-> 0, ids |-> <<>>]
    /\ l_enriched = <<>>
    /\ l_valid = <<>>
    /\ l_records = <<>>
    /\ l_i = 0
    /\ l_validated = NoData
    /\ l_events = <<>>
    /\ l_calls = <<>>

NextLink ==
    \/ LUseSupplied
    \/ LSearchTrials
    \/ LEnrich
    \/ LLinkTrial
    \/ LLinkDone
    \/ LExtractTrial
    \/ LExtractDone
    \/ LValidate

SpecLink == InitLink /\ [][NextLink]_vars

\* ================================================= tasks and their joins
\* run_linking_pipeline, extract_batch and LitScout.call followed task by
\* task.  A task is one awaitable handed to asyncio.gather: g numbers the
\* gather, item is the task's position among the gather's arguments, trial the
\* trial it works for (0: none), res the value it returned (0 until then).
Task(g, stage, trial, item, st) ==
    [g |-> g, stage |-> stage, trial |-> trial, item |-> item, st |-> st, res |-> 0]

CurGather(tasks) == IF tasks = <<>> THEN 0 ELSE tasks[Len(tasks)].g
\* the tasks of the gather the control flow awaits
Pending(tasks) == {i \in 1..Len(tasks) : tasks[i].g = CurGather(tasks)}

\* asyncio.gather returns when every awaitable it was given has returned
MutJoinReady(tasks) ==
    Pending(tasks) = {} \/ \E i \in Pending(tasks) : tasks[i].st = "done"
JoinReady(tasks) == \A i \in Pending(tasks) : tasks[i].st = "done"

\* without return_exceptions, gather raises as soon as one awaitable raised
GatherRaises(tasks) == \E i \in Pending(tasks) : tasks[i].st = "raised"

TaskResult(t) == [stage |-> t.stage, trial |-> t.trial, item |-> t.item, res |-> t.res]

\* the list gather returns: one value per awaitable, in the order of its
\* arguments; order is the order in which the tasks finished
MutGatherResults(tasks, order) ==
    [k \in 1..Len(order) |-> TaskResult(tasks[order[k]])]
GatherResults(tasks, order) ==
    LET mine == SelectSeq(tasks, LAMBDA t : t.g = CurGather(tasks))
    IN  [k \in 1..Len(mine) |-> TaskResult(mine[k])]

\* `async with semaphore`: a permit is taken when one is left
MutCanAcquire(sem) == TRUE
CanAcquire(sem) == sem > 0

\* extract_batch: one _limited(pub) per publication of publications[:5]
BatchTasks(g, trial, npubs) ==
    [j \in 1..(IF npubs < BATCH_CAP THEN npubs ELSE BATCH_CAP) |->
        Task(g, "extract", trial, j, "waiting")]

\* candidates[:3], candidates being n publications
MutTopCandidates(n) == n
TopCandidates(n) == IF n < TOP_CANDIDATES THEN n ELSE TOP_CANDIDATES

\* what a task can return: an enrichment a record (0) or an error record (1),
\* a publication search the number of its candidates, a repository search
\* the number of its hits, an extraction or a fetch the result for its item
Outcomes(t) ==
    CASE t.stage = "enrich" -> {0, 1}
      [] t.stage = "pubmed" -> 0..MaxCandT
      [] t.stage = "repo" -> {0, 1}
      [] OTHER -> {t.item}

\* trial_records after a task returned: a task builds its own result and
\* assigns nothing outside it
MutRecordsAfterTask(records, t, res) ==
    IF t.stage = "extract" /\ \E k \in 1..Len(records) : records[k].nct_id = t.trial
    THEN [k \in 1..Len(records) |->
            IF records[k].nct_id = t.trial
            THEN [records[k] EXCEPT !.fulltext_data = Append(@, res)]
            ELSE records[k]]
    ELSE records
RecordsAfterTask(records, t, res) == records

\* ---- the tasks
\* a waiting extraction enters `async with semaphore`; waiters are woken in
\* the order they arrived
TAcquire(i) ==
    /\ t_tasks[i].st = "waiting"
    /\ \A j \in 1..(i - 1) : t_tasks[j].st # "waiting"
    /\ CanAcquire(t_sem)
    /\ t_tasks' = [t_tasks EXCEPT ![i].st = "running"]
    /\ t_sem' = t_sem - 1
    /\ UNCHANGED << t_kind, t_pc, t_n, t_order, t_results, t_valid, t_records,
                    t_i, t_events >>
    /\ UNCHANGED << researchVars, linkVars, pl, xp, fv, tc, fu >>

\* a running task returns its value
TFinish(i) ==
    /\ t_tasks[i].st = "running"
    /\ \E res \in Outcomes(t_tasks[i]) :
          /\ t_tasks' = [t_tasks EXCEPT ![i].st = "done", ![i].res = res]
          /\ t_records' = RecordsAfterTask(t_records, t_tasks[i], res)
    /\ t_sem' = IF t_tasks[i].stage = "extract" THEN t_sem + 1 ELSE t_sem
    /\ t_order' = Append(t_order, i)
    /\ UNCHANGED << t_kind, t_pc, t_n, t_results, t_valid, t_i, t_events >>
    /\ UNCHANGED << researchVars, linkVars, pl, xp, fv, tc, fu >>

\* an extraction raises: fetch_fulltext lets through what is neither a
\* Timeout nor a RequestException
TRaise(i) ==
    /\ t_tasks[i].st = "running"
    /\ t_tasks[i].stage = "extract"
    /\ t_tasks' = [t_tasks EXCEPT ![i].st = "raised"]
    /\ t_sem' = IF t_tasks[i].stage = "extract" THEN t_sem + 1 ELSE t_sem
    /\ t_order' = Append(t_order, i)
    /\ UNCHANGED << t_kind, t_pc, t_n, t_results, t_valid, t_records, t_i, t_events >>
    /\ UNCHANGED << researchVars, linkVars, pl, xp, fv, tc, fu >>

\* ---- the control flow
\* the awaited gather raises: nothing catches it, the coroutine ends there
TGatherRaise ==
    /\ t_pc \in {"enrich_join", "link_join", "extract_join", "batch_join", "lit_join"}
    /\ GatherRaises(t_tasks)
    /\ t_pc' = "aborted"
    /\ UNCHANGED << t_kind, t_n, t_tasks, t_order, t_sem, t_results, t_valid,
                    t_records, t_i, t_events >>
    /\ UNCHANGED << researchVars, linkVars, pl, xp, fv, tc, fu >>

\* step 2: one enrich_trial thread per id
TEnrichDispatch ==
    /\ t_pc = "enrich"
    /\ t_events' = Append(t_events, LStatus("Registry Enricher"))
    /\ t_tasks' = t_tasks \o
          [i \in 1..t_n |-> Task(CurGather(t_tasks) + 1, "enrich", i, i, "running")]
    /\ t_order' = <<>>
    /\ t_pc' = "enrich_join"
    /\ UNCHANGED << t_kind, t_n, t_sem, t_results, t_valid, t_records, t_i >>
    /\ UNCHANGED << researchVars, linkVars, pl, xp, fv, tc, fu >>

TEnrichJoin ==
    /\ t_pc = "enrich_join"
    /\ JoinReady(t_tasks)
    /\ LET enriched_records == GatherResults(t_tasks, t_order)
       IN  /\ t_results' = enriched_records
           /\ t_valid' = ValidRecords([i \in 1..Len(enriched_records) |->
                             [nct_id |-> enriched_records[i].trial,
                              error |-> enriched_records[i].res = 1]])
    /\ t_events' = t_events \o
          << LAgentN("Registry Enricher", "Enriched", << Len(t_valid'), t_n >>),
             LStatus("PubMed Linker") >>
    /\ t_i' = 1
    /\ t_pc' = "link"
    /\ UNCHANGED << t_kind, t_n, t_tasks, t_order, t_sem, t_records >>
    /\ UNCHANGED << researchVars, linkVars, pl, xp, fv, tc, fu >>

\* step 3, one pass of the loop: gather(pubmed_task, repo_task)
TLinkDispatch ==
    /\ t_pc = "link"
    /\ t_i <= Len(t_valid)
    /\ t_tasks' = t_tasks \o
          << Task(CurGather(t_tasks) + 1, "pubmed", t_valid[t_i], 1, "running"),
             Task(CurGather(t_tasks) + 1, "repo", t_valid[t_i], 2, "running") >>
    /\ t_order' = <<>>
    /\ t_pc' = "link_join"
    /\ UNCHANGED << t_kind, t_n, t_sem, t_results, t_valid, t_records, t_i, t_events >>
    /\ UNCHANGED << researchVars, linkVars, pl, xp, fv, tc, fu >>

TLinkJoin ==
    /\ t_pc = "link_join"
    /\ JoinReady(t_tasks)
    /\ LET r == GatherResults(t_tasks, t_order)
       IN  /\ t_results' = r
           /\ t_records' = Append(t_records,
                                   [nct_id |-> t_valid[t_i],
                                    pubmed_candidates |-> r[1].res,
                                    repository_hits |-> r[2].res,
                                    fulltext_data |-> <<>>])
    /\ t_i' = t_i + 1
    /\ t_pc' = "link"
    /\ UNCHANGED << t_kind, t_n, t_tasks, t_order, t_sem, t_valid, t_events >>
    /\ UNCHANGED << researchVars, linkVars, pl, xp, fv, tc, fu >>

RECURSIVE TotalPubs(_)
TotalPubs(recs) ==
    IF recs = <<>> THEN 0 ELSE Head(recs).pubmed_candidates + TotalPubs(Tail(recs))

TLinkDone ==
    /\ t_pc = "link"
    /\ t_i > Len(t_valid)
    /\ t_events' = t_events \o << LAgent("PubMed Linker", "Found") >>
                            \o (IF TotalPubs(t_records) > 0
                                THEN << LStatus("Full-Text Extractor") >> ELSE <<>>)
    /\ t_pc' = IF TotalPubs(t_records) > 0 THEN "extract" ELSE "validate"
    /\ t_i' = 1
    /\ UNCHANGED << t_kind, t_n, t_tasks, t_order, t_sem, t_results, t_valid, t_records >>
    /\ UNCHANGED << researchVars, linkVars, pl, xp, fv, tc, fu >>

\* step 4, one pass of the loop: extract_batch(candidates[:3]) when the
\* record has candidates
TExtractDispatch ==
    /\ t_pc = "extract"
    /\ t_i <= Len(t_records)
    /\ IF t_records[t_i].pubmed_candidates = 0
       THEN /\ t_i' = t_i + 1
            /\ UNCHANGED << t_pc, t_tasks, t_order, t_sem >>
       ELSE /\ t_tasks' = t_tasks \o
                  BatchTasks(CurGather(t_tasks) + 1, t_records[t_i].nct_id,
                             TopCandidates(t_records[t_i].pubmed_candidates))
            /\ t_order' = <<>>
            /\ t_sem' = MAX_CONCURRENT
            /\ t_pc' = "extract_join"
            /\ UNCHANGED t_i
    /\ UNCHANGED << t_kind, t_n, t_results, t_valid, t_records, t_events >>
    /\ UNCHANGED << researchVars, linkVars, pl, xp, fv, tc, fu >>

TExtractJoin ==
    /\ t_pc = "extract_join"
    /\ JoinReady(t_tasks)
    /\ LET fulltext_results == GatherResults(t_tasks, t_order)
       IN  /\ t_results' = fulltext_results
           /\ t_records' = [t_records EXCEPT ![t_i].fulltext_data =
                               [k \in 1..Len(fulltext_results) |-> fulltext_results[k].res]]
    /\ t_i' = t_i + 1
    /\ t_pc' = "extract"
    /\ UNCHANGED << t_kind, t_n, t_tasks, t_order, t_sem, t_valid, t_events >>
    /\ UNCHANGED << researchVars, linkVars, pl, xp, fv, tc, fu >>

TExtractDone ==
    /\ t_pc = "extract"
    /\ t_i > Len(t_records)
    /\ t_events' = Append(t_events, LAgent("Full-Text Extractor", "Analysed"))
    /\ t_pc' = "validate"
    /\ UNCHANGED << t_kind, t_n, t_tasks, t_order, t_sem, t_results, t_valid,
                    t_records, t_i >>
    /\ UNCHANGED << researchVars, linkVars, pl, xp, fv, tc, fu >>

\* step 5 and the final result; validate_links dispatches no task
TValidate ==
    /\ t_pc = "validate"
    /\ t_events' = t_events \o << LStatus("Link Validator"),
                                  LAgent("Link Validator", "Validation complete"),
                                  LResult(NoData), LDone >>
    /\ t_pc' = "returned"
    /\ UNCHANGED << t_kind, t_n, t_tasks, t_order, t_sem, t_results, t_valid,
                    t_records, t_i >>
    /\ UNCHANGED << researchVars, linkVars, pl, xp, fv, tc, fu >>

\* extract_batch called with t_n publications
TBatchDispatch ==
    /\ t_pc = "batch"
    /\ t_tasks' = BatchTasks(1, 0, t_n)
    /\ t_order' = <<>>
    /\ t_sem' = MAX_CONCURRENT
    /\ t_pc' = "batch_join"
    /\ UNCHANGED << t_kind, t_n, t_results, t_valid, t_records, t_i, t_events >>
    /\ UNCHANGED << researchVars, linkVars, pl, xp, fv, tc, fu >>

TBatchJoin ==
    /\ t_pc = "batch_join"
    /\ JoinReady(t_tasks)
    /\ t_results' = GatherResults(t_tasks, t_order)
    /\ t_pc' = "returned"
    /\ UNCHANGED << t_kind, t_n, t_tasks, t_order, t_sem, t_valid, t_records,
                    t_i, t_events >>
    /\ UNCHANGED << researchVars, linkVars, pl, xp, fv, tc, fu >>

\* LitScout.call: gather(to_thread(fetch_papers), to_thread(search_papers))
TLitDispatch ==
    /\ t_pc = "lit"
    /\ t_tasks' = << Task(1, "pm_fetch", 0, 1, "running"),
                     Task(1, "ss_fetch", 0, 2, "running") >>
    /\ t_order' = <<>>
    /\ t_pc' = "lit_join"
    /\ UNCHANGED << t_kind, t_n, t_sem, t_results, t_valid, t_records, t_i, t_events >>
    /\ UNCHANGED << researchVars, linkVars, pl, xp, fv, tc, fu >>

TLitJoin ==
    /\ t_pc = "lit_join"
    /\ JoinReady(t_tasks)
    /\ t_results' = GatherResults(t_tasks, t_order)
    /\ t_pc' = "returned"
    /\ UNCHANGED << t_kind, t_n, t_tasks, t_order, t_sem, t_valid, t_records,
                    t_i, t_events >>
    /\ UNCHANGED << researchVars, linkVars, pl, xp, fv, tc, fu >>

InitTasks ==
    /\ ResearchOff
    /\ LinkOff
    /\ pl = [pc |-> "off"]
    /\ xp = [pc |-> "off"]
    /\ fv = [pc |-> "off"]
    /\ tc = [pc |-> "off"]
    /\ fu = [pc |-> "off"]
    /\ \/ t_kind = "linking" /\ t_pc = "enrich" /\ t_n \in 0..MaxTrials
       \/ t_kind = "batch" /\ t_pc = "batch" /\ t_n \in 0..MaxPubs
       \/ t_kind = "literature" /\ t_pc = "lit" /\ t_n = 2
    /\ t_tasks = <<>>
    /\ t_order = <<>>
    /\ t_sem = 0
    /\ t_results = <<>>
    /\ t_valid = <<>>
    /\ t_records = <<>>
    /\ t_i = 0
    /\ t_events = <<>>

NextTasks ==
    \/ \E i \in 1..Len(t_tasks) : TAcquire(i)
    \/ \E i \in 1..Len(t_tasks) : TFinish(i)
    \/ \E i \in 1..Len(t_tasks) : TRaise(i)
    \/ TGatherRaise
    \/ TEnrichDispatch
    \/ TEnrichJoin
    \/ TLinkDispatch
    \/ TLinkJoin
    \/ TLinkDone
    \/ TExtractDispatch
    \/ TExtractJoin
    \/ TExtractDone
    \/ TValidate
    \/ TBatchDispatch
    \/ TBatchJoin
    \/ TLitDispatch
    \/ TLitJoin

SpecTasks == InitTasks /\ [][NextTasks]_vars

\* ============================================ one publication-linking call
\* link_trial_to_publications(registry) followed call by call.  pl.calls
\* lists the searches and the gateway call in the order they are issued and
\* return; pl.all_citations is what the ranking step is given.
Citations(src, first, n, t) ==
    [i \in 1..n |-> [pmid |-> first + i - 1, title_has_nct |-> t, src |-> src]]

PlFrame(nct_id, t) ==
    [pc |-> "start", nct_id |-> nct_id, title_has_nct |-> t,
     nct_citations |-> <<>>, heuristic_citations |-> <<>>, all_citations |-> <<>>,
     calls |-> <<>>, gw |-> "none", out |-> PyList(<<>>)]

\* `if not nct_id: return []`, else step 1 issues the structured search
PLStart ==
    /\ pl.pc = "start"
    /\ pl' = IF pl.nct_id = 0
             THEN [pl EXCEPT !.pc = "returned"]
             ELSE [pl EXCEPT !.pc = "structured",
                             !.calls = Append(@, "search_by_nct")]
    /\ UNCHANGED << researchVars, linkVars, taskVars, xp, fv, tc, fu >>

\* the structured search returns; step 2 issues the heuristic search when it
\* brought fewer than three citations
PLStructured ==
    /\ pl.pc = "structured"
    /\ \E a \in 0..MaxNctHits :
          pl' = [pl EXCEPT
                    !.nct_citations = Citations("nct", 1, a, pl.title_has_nct),
                    !.calls = @ \o << "search_by_nct returned" >>
                                \o (IF HeuristicIssued(a)
                                    THEN << "search_by_trial_metadata" >> ELSE <<>>),
                    !.pc = IF HeuristicIssued(a) THEN "heuristic" ELSE "combine"]
    /\ UNCHANGED << researchVars, linkVars, taskVars, xp, fv, tc, fu >>

PLHeuristic ==
    /\ pl.pc = "heuristic"
    /\ \E b \in 0..MaxHeurHits :
          pl' = [pl EXCEPT
                    !.heuristic_citations =
                        Citations("heuristic", Len(pl.nct_citations) + 1, b,
                                  pl.title_has_nct),
                    !.calls = Append(@, "search_by_trial_metadata returned"),
                    !.pc = "combine"]
    /\ UNCHANGED << researchVars, linkVars, taskVars, xp, fv, tc, fu >>

\* all_citations = nct_citations + heuristic_citations; nothing to rank
\* returns [], else step 3 calls the ranking gateway
PLRank ==
    /\ pl.pc = "combine"
    /\ LET combined == pl.nct_citations \o pl.heuristic_citations
       IN  IF combined = <<>>
           THEN pl' = [pl EXCEPT !.pc = "returned"]
           ELSE \E text \in RankingTexts :
                   pl' = [pl EXCEPT
                             !.all_citations = combined,
                             !.calls = Append(@, "pubmed_linker"),
                             !.gw = text.kind,
                             !.out = RankedCandidates(combined, text),
                             !.pc = "returned"]
    /\ UNCHANGED << researchVars, linkVars, taskVars, xp, fv, tc, fu >>

InitLinker ==
    /\ ResearchOff
    /\ LinkOff
    /\ t_kind = "off" /\ t_pc = "off" /\ t_n = 0 /\ t_tasks = <<>> /\ t_order = <<>>
    /\ t_sem = 0 /\ t_results = <<>> /\ t_valid = <<>> /\ t_records = <<>>
    /\ t_i = 0 /\ t_events = <<>>
    /\ xp = [pc |-> "off"]
    /\ fv = [pc |-> "off"]
    /\ tc = [pc |-> "off"]
    /\ fu = [pc |-> "off"]
    /\ \E nct_id \in 0..1, t \in BOOLEAN : pl = PlFrame(nct_id, t)

NextLinker ==
    \/ PLStart
    \/ PLStructured
    \/ PLHeuristic
    \/ PLRank

SpecLinker == InitLinker /\ [][NextLinker]_vars

\* ================================================== one extraction call
\* extract_publication_data(pmid, doi, nct_id) followed assignment by
\* assignment.  Every field of xp.result records where its value came from:
\* "default" (the initial dict), "scan" (the rule-based scan of the full
\* text) or "gateway" (the parsed classification answer); a merged list
\* records every origin that went into it.
XpResult ==
    [nct_mentioned |-> FALSE, fulltext_available |-> FALSE,
     availability_type |-> [v |-> "not_stated", from |-> "default"],
     statement_snippet |-> "default",
     repository_urls |-> {"default"}, repository_names |-> {"default"},
     supplementary_urls |-> "default", notes |-> "default"]

\* What the classification gateway can answer: the call raises, the text is
\* no JSON, the JSON is no object, or it is an object (availability_type as
\* given; urls_list, names_list: whether repository_urls and
\* repository_names are lists that concatenate with a list)
GatewayAnswers ==
    { [kind |-> kd, availability_type |-> "not_stated", urls_list |-> TRUE,
       names_list |-> TRUE] : kd \in {"raise", "invalid", "nondict"} }
        \cup { [kind |-> "dict", availability_type |-> a, urls_list |-> u,
                names_list |-> n] : a \in AvailTypes, u \in BOOLEAN, n \in BOOLEAN }

\* the except clause: "Use rule-based results only"
RuleBased(result, data_info) ==
    [result EXCEPT
        !.availability_type =
            [v |-> IF data_info.repositories THEN "open_access" ELSE "not_stated",
             from |-> "scan"],
        !.statement_snippet = "scan"]

\* the try block from the parsed answer on: four fields are assigned from it,
\* then the two lists are merged one after the other; a list that does not
\* concatenate raises where it is merged
Classified(result, data_info, gw) ==
    LET r1 == [result EXCEPT
                  !.availability_type = [v |-> gw.availability_type, from |-> "gateway"],
                  !.statement_snippet = "gateway",
                  !.supplementary_urls = "gateway",
                  !.notes = "gateway"]
        r2 == [r1 EXCEPT !.repository_urls = @ \cup {"gateway"}]
        r3 == [r2 EXCEPT !.repository_names = @ \cup {"gateway"}]
    IN  CASE gw.kind # "dict" -> RuleBased(result, data_info)
          [] gw.kind = "dict" /\ ~gw.urls_list -> RuleBased(r1, data_info)
          [] gw.kind = "dict" /\ gw.urls_list /\ ~gw.names_list -> RuleBased(r2, data_info)
          [] OTHER -> r3

\* steps 1 to 3: the fetch, the search for the trial id and the scan
XFetch ==
    /\ xp.pc = "start"
    /\ \/ xp' = [xp EXCEPT !.pc = "returned",
                           !.result = [@ EXCEPT !.notes = "no_fulltext"]]
       \/ \E mention, section, repos \in BOOLEAN :
             xp' = [xp EXCEPT
                      !.pc = "scanned",
                      !.data_info = [has_data_section |-> section, repositories |-> repos],
                      !.result = [@ EXCEPT
                                    !.fulltext_available = TRUE,
                                    !.nct_mentioned = IF xp.nct_id # 0 THEN mention ELSE FALSE,
                                    !.repository_urls = {"scan"},
                                    !.repository_names = {"scan"}]]
    /\ UNCHANGED << researchVars, linkVars, taskVars, pl, fv, tc, fu >>

\* step 4: the classification, when the scan found a data section or a
\* repository name
XClassify ==
    /\ xp.pc = "scanned"
    /\ IF xp.data_info.has_data_section \/ xp.data_info.repositories
       THEN \E gw \in GatewayAnswers :
               xp' = [xp EXCEPT
                        !.pc = "returned",
                        !.gw = gw,
                        !.failed = gw.kind # "dict" \/ ~gw.urls_list \/ ~gw.names_list,
                        !.result = Classified(xp.result, xp.data_info, gw)]
       ELSE xp' = [xp EXCEPT
                     !.pc = "returned",
                     !.result = [@ EXCEPT !.availability_type =
                                    [v |-> "not_stated", from |-> "default"]]]
    /\ UNCHANGED << researchVars, linkVars, taskVars, pl, fv, tc, fu >>

InitExtract ==
    /\ ResearchOff
    /\ LinkOff
    /\ t_kind = "off" /\ t_pc = "off" /\ t_n = 0 /\ t_tasks = <<>> /\ t_order = <<>>
    /\ t_sem = 0 /\ t_results = <<>> /\ t_valid = <<>> /\ t_records = <<>>
    /\ t_i = 0 /\ t_events = <<>>
    /\ pl = [pc |-> "off"]
    /\ fv = [pc |-> "off"]
    /\ tc = [pc |-> "off"]
    /\ fu = [pc |-> "off"]
    /\ \E nct_id \in 0..1 :
          xp = [pc |-> "start", nct_id |-> nct_id,
                data_info |-> [has_data_section |-> FALSE, repositories |-> FALSE],
                gw |-> [kind |-> "none", availability_type |-> "not_stated",
                        urls_list |-> TRUE, names_list |-> TRUE],
                failed |-> FALSE, result |-> XpResult]

NextExtract ==
    \/ XFetch
    \/ XClassify

SpecExtract == InitExtract /\ [][NextExtract]_vars

\* =================================================== one validation call
\* validate_links(trial_records) or _fallback_validation(trial_records) on
\* record lists of three kinds: one record whose candidates carry every
\* score, one record whose full-text records carry every availability type,
\* and lists of records with one candidate or none.
RecordLists ==
    LET Scores == {20, 49, 50, 69, 70, 90}
        \* a candidate with a confidence, or without the key (score 0)
        Cand(pmid, score) ==
            IF score = 0
            THEN [dict |-> TRUE, pmid |-> pmid, conf_ok |-> TRUE, match_type |-> "gateway"]
            ELSE Item(pmid, score, TRUE, "gateway")
        \* fulltext_data holds one record per extracted candidate, the first three
        ScoreRecords ==
            { TrialRecord(1, PyList([j \in 1..MaxFvCands |-> Cand(j, sc[j])]), ft) :
                sc \in [1..MaxFvCands -> Scores \cup {0}],
                ft \in { <<>> } \cup
                       { [j \in 1..TopCandidates(MaxFvCands) |->
                             FullText(j, m[j], TRUE, "not_stated")] :
                         m \in [1..TopCandidates(MaxFvCands) -> BOOLEAN] } }
        AvailRecords ==
            UNION { { TrialRecord(1, PyList([j \in 1..n |-> Cand(j, 60)]),
                                  [j \in 1..n |-> FullText(j, FALSE, TRUE, av[j])]) :
                        av \in [1..n -> AvailTypes] } : n \in 1..TOP_CANDIDATES }
        PlainRecord(nct, ch) ==
            IF ch.score = 0
            THEN TrialRecord(nct, PyList(<<>>), <<>>)
            ELSE TrialRecord(nct, PyList(<< Cand(1, ch.score) >>),
                             << FullText(1, ch.mentioned, TRUE, "not_stated") >>)
        PlainLists ==
            UNION { { [i \in 1..k |-> PlainRecord(i, chs[i])] :
                        chs \in [1..k -> { [score |-> sc, mentioned |-> m] :
                                             sc \in {0, 20, 90}, m \in BOOLEAN }] } :
                    k \in 2..MaxRecs }
    IN  { << r >> : r \in ScoreRecords \cup AvailRecords } \cup PlainLists

\* What the validation gateway answers here: the call raises, the text is no
\* JSON, or it is an object with trial_links whose publications carry the
\* tier the gateway chose
TieredTexts(recs) ==
    LET TieredLinks(tier) ==
            [i \in 1..Len(recs) |->
                LinkEntry(recs[i].nct_id,
                          [j \in 1..Len(Take(recs[i].pubmed_candidates.items, 3)) |->
                              [pmid |-> recs[i].pubmed_candidates.items[j].pmid,
                               confidence_tier |-> tier,
                               confidence_score |->
                                   Confidence(recs[i].pubmed_candidates.items[j])]],
                          "gateway")]
    IN  { [kind |-> kd, val |-> NoData] : kd \in {"raise", "invalid"} }
            \cup { [kind |-> "json",
                    val |-> Validated("dict", {"trial_links", "summary"}, "entries",
                                      TieredLinks(tier), "gateway")] :
                   tier \in {"low", "high"} }

\* trial_records after _fallback_validation ran: it builds new publication
\* dicts and assigns to those only
MutRecordsAfterFallback(recs) ==
    [i \in 1..Len(recs) |->
        [recs[i] EXCEPT !.pubmed_candidates.items =
            [j \in 1..Len(@) |->
                IF \E k \in 1..Len(recs[i].fulltext_data) :
                      /\ recs[i].fulltext_data[k].pmid = @[j].pmid
                      /\ recs[i].fulltext_data[k].nct_mentioned
                THEN Item(@[j].pmid, Max(Confidence(@[j]), 80), TRUE, @[j].match_type)
                ELSE @[j]]]]
RecordsAfterFallback(recs) == recs

\* the role keys of the prompt table prompts.py builds
BIOTECH_PROMPTS ==
    { "analyzer", "trials_scout", "literature_miner", "hypothesis_generator",
      "advocate", "skeptic", "mediator", "synthesizer", "clarifier",
      "followup_analyzer", "followup_advocate", "followup_skeptic",
      "followup_mediator", "followup_synthesizer" }

\* validate_links on a non-empty list. BIOTECH_PROMPTS["link_validator"] is
\* evaluated inside the try, as an argument of the gateway call: a missing key
\* raises KeyError before any call is made and the except clause answers with
\* the fallback.
VValidateLinks ==
    /\ fv.pc = "start"
    /\ fv.fn = "validate_links"
    /\ IF "link_validator" \notin fv.prompts
       THEN fv' = [fv EXCEPT
                     !.pc = "returned",
                     !.validated = FallbackValidation(fv.trial_records),
                     !.trial_records = RecordsAfterFallback(@)]
       ELSE \E text \in TieredTexts(fv.trial_records) :
               fv' = [fv EXCEPT
                        !.pc = "returned",
                        !.text = text,
                        !.validated = ValidateLinks(fv.trial_records, text).val,
                        !.trial_records = IF UsesFallback(text)
                                          THEN RecordsAfterFallback(@) ELSE @]
    /\ UNCHANGED << researchVars, linkVars, taskVars, pl, xp, tc, fu >>

VFallback ==
    /\ fv.pc = "start"
    /\ fv.fn = "_fallback_validation"
    /\ fv' = [fv EXCEPT
                !.pc = "returned",
                !.validated = FallbackValidation(fv.trial_records),
                !.trial_records = RecordsAfterFallback(@)]
    /\ UNCHANGED << researchVars, linkVars, taskVars, pl, xp, tc, fu >>

\* the fallback run a second time on the same records
VFallbackAgain ==
    /\ fv.pc = "returned"
    /\ fv.validated.src = "fallback"
    /\ fv' = [fv EXCEPT
                !.pc = "rerun",
                !.again = FallbackValidation(fv.trial_records),
                !.trial_records = RecordsAfterFallback(@)]
    /\ UNCHANGED << researchVars, linkVars, taskVars, pl, xp, tc, fu >>

InitValidate ==
    /\ ResearchOff
    /\ LinkOff
    /\ t_kind = "off" /\ t_pc = "off" /\ t_n = 0 /\ t_tasks = <<>> /\ t_order = <<>>
    /\ t_sem = 0 /\ t_results = <<>> /\ t_valid = <<>> /\ t_records = <<>>
    /\ t_i = 0 /\ t_events = <<>>
    /\ pl = [pc |-> "off"]
    /\ xp = [pc |-> "off"]
    /\ tc = [pc |-> "off"]
    /\ fu = [pc |-> "off"]
    \* the prompt table is configuration handed to the agents by role key: the
    \* table of prompts.py, or that table with the keys the linking agents look up
    /\ \E fn \in {"validate_links", "_fallback_validation"}, recs \in RecordLists,
          prompts \in { BIOTECH_PROMPTS,
                        BIOTECH_PROMPTS \cup {"pubmed_linker", "fulltext_extractor",
                                              "link_validator"} } :
          fv = [pc |-> "start", fn |-> fn, given |-> recs, trial_records |-> recs,
                prompts |-> prompts, text |-> [kind |-> "none", val |-> NoData],
                validated |-> NoData, again |-> NoData]

NextValidate ==
    \/ VValidateLinks
    \/ VFallback
    \/ VFallbackAgain

SpecValidate == InitValidate /\ [][NextValidate]_vars

\* ================================================ one call of a data source
\* What one HTTP request of a tool can meet: no answer in time, no connection,
\* or an answer with a status, and with a body when the status is 200 (no
\* tool reads the body of another status). Bodies: "not_json" is no JSON at
\* all, "list" a JSON list where the tool reads an object, "num_field" a JSON
\* object whose container field holds a number, "empty" a well-formed answer
\* without hits, "hits" a well-formed answer with hits.
HttpResponses ==
    { [net |-> n, status |-> 0, body |-> "none"] : n \in {"timeout", "refused"} }
        \cup { [net |-> "ok", status |-> s, body |-> "none"] : s \in {404, 429, 500} }
        \cup { [net |-> "ok", status |-> 200, body |-> b] :
                 b \in {"not_json", "list", "num_field", "empty", "hits"} }

\* resp.json() on a body that is no JSON raises requests' JSONDecodeError, a
\* RequestException and a ValueError, or, with a requests release older than
\* 2.27, the json module's JSONDecodeError, a ValueError only. The repository
\* pins no release.
Builds == {"requests_json_error", "json_json_error"}

\* requests.get, then raise_for_status where the tool calls it ("none": nothing raised)
HttpRaised(r, checks_status) ==
    IF r.net = "timeout" THEN "Timeout"
    ELSE IF r.net = "refused" THEN "ConnectionError"
    ELSE IF checks_status /\ r.status >= 400 THEN "HTTPError"
    ELSE "none"

IsRequestException(exc, build) ==
    \/ exc \in {"Timeout", "ConnectionError", "HTTPError"}
    \/ exc = "JSONDecodeError" /\ build = "requests_json_error"

Returned(kind) == [st |-> "returned", kind |-> kind, exc |-> "none"]
Raised(exc) == [st |-> "raised", kind |-> "none", exc |-> exc]
MoreRequests == [st |-> "more", kind |-> "none", exc |-> "none"]

\* a fetch_trials without its `except requests.RequestException`
MutFetchTrials(resps, build) ==
    LET r == resps[1]
        exc == IF HttpRaised(r, TRUE) # "none" THEN HttpRaised(r, TRUE)
               ELSE CASE r.body = "not_json" -> "JSONDecodeError"
                      [] r.body = "list" -> "AttributeError"
                      [] r.body = "num_field" -> "TypeError"
                      [] OTHER -> "none"
    IN  IF exc = "none" THEN Returned(IF r.body = "empty" THEN "text" ELSE "data")
        ELSE IF exc \in {"Timeout", "KeyError", "TypeError"}
             THEN Returned("text")
             ELSE Raised(exc)

\* fetch_trials: one request; data.get on a list raises AttributeError,
\* len(studies) on a number raises TypeError
FetchTrials(resps, build) ==
    LET r == resps[1]
        exc == IF HttpRaised(r, TRUE) # "none" THEN HttpRaised(r, TRUE)
               ELSE CASE r.body = "not_json" -> "JSONDecodeError"
                      [] r.body = "list" -> "AttributeError"
                      [] r.body = "num_field" -> "TypeError"
                      [] OTHER -> "none"
    IN  IF exc = "none" THEN Returned(IF r.body = "empty" THEN "text" ELSE "data")
        ELSE IF IsRequestException(exc, build) \/ exc \in {"KeyError", "TypeError"}
             THEN Returned("text")
             ELSE Raised(exc)

\* fetch_papers (search_by_nct and search_by_trial_metadata end in it): esearch,
\* then efetch when there are ids; a body that is no XML raises ET.ParseError
FetchPapers(resps, build) ==
    LET r == resps[1]
        exc1 == IF HttpRaised(r, TRUE) # "none" THEN HttpRaised(r, TRUE)
                ELSE CASE r.body = "not_json" -> "JSONDecodeError"
                       [] r.body = "list" -> "AttributeError"
                       [] r.body = "num_field" -> "AttributeError"
                       [] OTHER -> "none"
        f == resps[2]
        exc2 == IF HttpRaised(f, TRUE) # "none" THEN HttpRaised(f, TRUE)
                ELSE IF f.body \in {"not_json", "list", "num_field"} THEN "ParseError"
                ELSE "none"
        Handle(exc) == IF IsRequestException(exc, build) \/ exc = "ParseError"
                       THEN Returned("text") ELSE Raised(exc)
    IN  IF exc1 # "none" THEN Handle(exc1)
        ELSE IF r.body = "empty" THEN Returned("text")
        ELSE IF Len(resps) < 2 THEN MoreRequests
        ELSE IF exc2 # "none" THEN Handle(exc2)
        ELSE Returned(IF f.body = "empty" THEN "text" ELSE "data")

\* enrich_trial: the request and resp.json() are inside the try, the reading
\* of the study is after it
EnrichTrial(resps, build) ==
    LET r == resps[1]
        exc == IF HttpRaised(r, FALSE) # "none" THEN HttpRaised(r, FALSE)
               ELSE IF r.status = 404 THEN "none"
               ELSE IF r.status >= 400 THEN "HTTPError"
               ELSE IF r.body = "not_json" THEN "JSONDecodeError"
               ELSE "none"
    IN  IF exc # "none"
        THEN IF IsRequestException(exc, build) THEN Returned("error_record") ELSE Raised(exc)
        ELSE IF r.status = 404 THEN Returned("error_record")
        ELSE IF r.body \in {"list", "num_field"} THEN Raised("AttributeError")
        ELSE Returned("data")

\* fetch_fulltext: the search, then the full text when the article has a pmcid
\* ("hits"); the second request has no raise_for_status, and without a 200 the
\* article's abstract (here none) is returned
FetchFulltext(resps, build) ==
    LET r == resps[1]
        exc1 == IF HttpRaised(r, TRUE) # "none" THEN HttpRaised(r, TRUE)
                ELSE CASE r.body = "not_json" -> "JSONDecodeError"
                       [] r.body = "list" -> "AttributeError"
                       [] r.body = "num_field" -> "AttributeError"
                       [] OTHER -> "none"
        f == resps[2]
        Handle(exc) == IF IsRequestException(exc, build) THEN Returned("empty") ELSE Raised(exc)
    IN  IF exc1 # "none" THEN Handle(exc1)
        ELSE IF r.body = "empty" THEN Returned("empty")
        ELSE IF Len(resps) < 2 THEN MoreRequests
        ELSE IF HttpRaised(f, FALSE) # "none" THEN Handle(HttpRaised(f, FALSE))
        ELSE Returned(IF f.status = 200 THEN "data" ELSE "empty")

\* search_repositories with an nct_id and no title: search_zenodo, then
\* search_vivli, each with its own try
SearchRepositories(resps, build) ==
    LET Search(r, repo) ==
            LET exc == IF HttpRaised(r, FALSE) # "none" THEN HttpRaised(r, FALSE)
                       ELSE IF r.status # 200 THEN "none"
                       ELSE CASE r.body = "not_json" -> "JSONDecodeError"
                              [] r.body = "list" /\ repo = "zenodo" -> "AttributeError"
                              [] r.body = "num_field" /\ repo = "zenodo" -> "AttributeError"
                              [] r.body = "num_field" /\ repo = "vivli" -> "TypeError"
                              [] OTHER -> "none"
            IN  IF exc = "none" \/ IsRequestException(exc, build) \/ exc = "JSONDecodeError"
                THEN Returned(IF exc = "none" /\ r.status = 200 /\ r.body = "hits"
                              THEN "data" ELSE "empty")
                ELSE Raised(exc)
        zenodo == Search(resps[1], "zenodo")
        vivli == Search(resps[2], "vivli")
    IN  IF zenodo.st = "raised" THEN zenodo
        ELSE IF Len(resps) < 2 THEN MoreRequests
        ELSE IF vivli.st = "raised" THEN vivli
        ELSE Returned(IF "data" \in {zenodo.kind, vivli.kind} THEN "data" ELSE "empty")

\* search_papers: up to MAX_ATTEMPTS requests; a timeout and a status other
\* than 200 go on to the next attempt, another request exception ends the
\* loop, a 200 is formatted inside the try; resps holds the attempts so far,
\* every one before the last having gone on
SearchPapers(resps, build) ==
    LET r == resps[Len(resps)]
    IN  IF r.net = "timeout" \/ (r.net = "ok" /\ r.status # 200)
        THEN IF Len(resps) < MAX_ATTEMPTS THEN MoreRequests ELSE Returned("text")
        ELSE IF r.net = "refused" THEN Returned("text")
        ELSE CASE r.body = "not_json" ->
                     IF IsRequestException("JSONDecodeError", build)
                     THEN Returned("text") ELSE Raised("JSONDecodeError")
               [] r.body = "list" -> Raised("AttributeError")
               [] r.body = "num_field" -> Raised("TypeError")
               [] r.body = "empty" -> Returned("text")
               [] r.body = "hits" -> Returned("data")

\* the tools and the steps that call them; only step 1 of run_linking_pipeline
\* wraps its call in a try
ToolCallers ==
    { << "fetch_trials", "trials_scout" >>,
      << "fetch_trials", "linking_search" >>,
      << "fetch_papers", "literature_miner" >>,
      << "search_papers", "literature_miner" >>,
      << "fetch_papers", "link_trial_to_publications" >>,
      << "enrich_trial", "linking_enrichment" >>,
      << "fetch_fulltext", "extract_publication_data" >>,
      << "search_repositories", "linking_pubmed" >> }

\* one request of the running tool is answered; the tool goes on to its next
\* request, returns or raises
TCRequest ==
    /\ tc.pc = "running"
    /\ \E r \in HttpResponses :
          LET resps == Append(tc.resps, r)
              out == CASE tc.tool = "fetch_trials" -> FetchTrials(resps, tc.build)
                       [] tc.tool = "fetch_papers" -> FetchPapers(resps, tc.build)
                       [] tc.tool = "enrich_trial" -> EnrichTrial(resps, tc.build)
                       [] tc.tool = "fetch_fulltext" -> FetchFulltext(resps, tc.build)
                       [] tc.tool = "search_repositories" -> SearchRepositories(resps, tc.build)
                       [] tc.tool = "search_papers" -> SearchPapers(resps, tc.build)
          IN  tc' = [tc EXCEPT !.resps = resps,
                               !.out = out,
                               !.pc = IF out.st = "more" THEN "running" ELSE out.st]
    /\ UNCHANGED << researchVars, linkVars, taskVars, pl, xp, fv, fu >>

\* the calling step takes the tool's result, or its exception: the try of
\* step 1 of run_linking_pipeline turns it into the run's error event, every
\* other caller lets it leave the step, and the run with it. events is what
\* step 1 of run_linking_pipeline yields around its search: a text without a
\* list is `not trial_list`, the message and done.
TCCaller ==
    /\ tc.pc \in {"returned", "raised"}
    /\ tc' = [tc EXCEPT !.pc = "done",
                        !.run = IF tc.pc = "returned" THEN "continues"
                                ELSE IF tc.caller = "linking_search" THEN "error_event"
                                ELSE "aborted",
                        !.events =
                            IF tc.caller # "linking_search" THEN <<>>
                            ELSE << LStatus("Linking Orchestrator") >> \o
                                 (IF tc.pc = "raised" THEN << LError >>
                                  ELSE IF tc.out.kind = "text" THEN NoTrialsTail
                                  ELSE << LAgent("Linking Orchestrator", "Found") >>)]
    /\ UNCHANGED << researchVars, linkVars, taskVars, pl, xp, fv, fu >>

InitTools ==
    /\ ResearchOff
    /\ LinkOff
    /\ t_kind = "off" /\ t_pc = "off" /\ t_n = 0 /\ t_tasks = <<>> /\ t_order = <<>>
    /\ t_sem = 0 /\ t_results = <<>> /\ t_valid = <<>> /\ t_records = <<>>
    /\ t_i = 0 /\ t_events = <<>>
    /\ pl = [pc |-> "off"]
    /\ xp = [pc |-> "off"]
    /\ fv = [pc |-> "off"]
    /\ fu = [pc |-> "off"]
    /\ \E tcl \in ToolCallers, build \in Builds :
          tc = [pc |-> "running", tool |-> tcl[1], caller |-> tcl[2], build |-> build,
                resps |-> <<>>, out |-> MoreRequests, run |-> "running",
                events |-> <<>>]

NextTools ==
    \/ TCRequest
    \/ TCCaller

SpecTools == InitTools /\ [][NextTools]_vars

\* ------------------------------------------------- the follow-up endpoint
\* followup_research's event_generator: one gateway call per step, the
\* transcript debate_history growing by every response, all inside one try.
Min(a, b) == IF a <= b THEN a ELSE b

\* FollowUpRequest.rounds is an int (default 1)
FollowUpRounds == (0 - NegRounds)..MaxFuRounds

\* num_rounds = max(1, min(req.rounds, 5))
MutNumRounds(rounds) == Max(1, rounds)

NumRounds(rounds) == Max(1, Min(rounds, MAX_FOLLOWUP_ROUNDS))

\* the (prompt_key, agent_name) pairs of one round, in the order of the loop
FollowUpAgents ==
    << [key |-> "followup_advocate", agent |-> "Advocate"],
       [key |-> "followup_skeptic", agent |-> "Skeptic"],
       [key |-> "followup_mediator", agent |-> "Mediator"] >>

FuEvent(event, node, r) == [event |-> event, node |-> node, r |-> r]

\* user_prompt = full_context + the heading + debate_history (the analyzer's
\* prompt is full_context alone, debate_history being empty then)
FuPrompt(debate_history) == debate_history

\* what one acall_llm does: it returns a text or raises
FuOutcomes == {[st |-> "returned", text |-> t] : t \in Resp} \cup {[st |-> "raised", text |-> 0]}

\* the except clause of the generator: one error event, and the generator ends
FuRaised(key, status) ==
    fu' = [fu EXCEPT !.pc = "error",
                     !.calls = Append(@, [key |-> key, prompt |-> FuPrompt(fu.debate_history),
                                          st |-> "raised", text |-> 0]),
                     !.events = @ \o << status, FuEvent("error", "", 0) >>]

\* Step 1: the query analyzer
FuAnalyzer ==
    /\ fu.pc = "analyzer"
    /\ \E o \in FuOutcomes :
          LET status == FuEvent("status", "followup", 0)
          IN  IF o.st = "raised"
              THEN FuRaised("followup_analyzer", status)
              ELSE fu' = [fu EXCEPT
                     !.pc = "debate",
                     !.calls = Append(@, [key |-> "followup_analyzer", prompt |-> <<>>,
                                          st |-> "returned", text |-> o.text]),
                     !.debate_history = Append(@, [label |-> "Query Analysis", r |-> 0,
                                                   text |-> o.text]),
                     !.events = @ \o << status,
                                        FuEvent("message", "Follow-Up Analyzer", 0),
                                        FuEvent("node_complete", "followup_analyzer", 0) >>,
                     !.num_rounds = NumRounds(fu.rounds),
                     !.r = 1,
                     !.k = 1]
    /\ UNCHANGED << researchVars, linkVars, taskVars, pl, xp, fv, tc >>

\* Step 2: one agent of one round; after the mediator the next round starts,
\* after the last round the synthesizer is next
FuDebater ==
    /\ fu.pc = "debate"
    /\ \E o \in FuOutcomes :
          LET a == FollowUpAgents[fu.k]
              status == FuEvent("status", "followup", fu.r)
              last == fu.k = Len(FollowUpAgents)
          IN  IF o.st = "raised"
              THEN FuRaised(a.key, status)
              ELSE fu' = [fu EXCEPT
                     !.pc = IF last /\ fu.r = fu.num_rounds THEN "synthesizer" ELSE "debate",
                     !.calls = Append(@, [key |-> a.key, prompt |-> FuPrompt(fu.debate_history),
                                          st |-> "returned", text |-> o.text]),
                     !.debate_history = Append(@, [label |-> a.agent, r |-> fu.r,
                                                   text |-> o.text]),
                     !.events = @ \o << status,
                                        FuEvent("message", a.agent, fu.r),
                                        FuEvent("node_complete", a.key, fu.r) >>,
                     !.r = IF last THEN fu.r + 1 ELSE fu.r,
                     !.k = IF last THEN 1 ELSE fu.k + 1]
    /\ UNCHANGED << researchVars, linkVars, taskVars, pl, xp, fv, tc >>

\* Step 3: the synthesizer, then done
FuSynthesizer ==
    /\ fu.pc = "synthesizer"
    /\ \E o \in FuOutcomes :
          LET status == FuEvent("status", "followup", 0)
          IN  IF o.st = "raised"
              THEN FuRaised("followup_synthesizer", status)
              ELSE fu' = [fu EXCEPT
                     !.pc = "done",
                     !.calls = Append(@, [key |-> "followup_synthesizer",
                                          prompt |-> FuPrompt(fu.debate_history),
                                          st |-> "returned", text |-> o.text]),
                     !.events = @ \o << status,
                                        FuEvent("message", "Follow-Up Synthesizer", 0),
                                        FuEvent("node_complete", "followup_synthesizer", 0),
                                        FuEvent("done", "", 0) >>]
    /\ UNCHANGED << researchVars, linkVars, taskVars, pl, xp, fv, tc >>

InitFollowUp ==
    /\ ResearchOff
    /\ LinkOff
    /\ t_kind = "off" /\ t_pc = "off" /\ t_n = 0 /\ t_tasks = <<>> /\ t_order = <<>>
    /\ t_sem = 0 /\ t_results = <<>> /\ t_valid = <<>> /\ t_records = <<>>
    /\ t_i = 0 /\ t_events = <<>>
    /\ pl = [pc |-> "off"]
    /\ xp = [pc |-> "off"]
    /\ fv = [pc |-> "off"]
    /\ tc = [pc |-> "off"]
    /\ \E rounds \in FollowUpRounds :
          fu = [pc |-> "analyzer", rounds |-> rounds, num_rounds |-> 0, r |-> 0, k |-> 0,
                debate_history |-> <<>>, calls |-> <<>>, events |-> <<>>]

NextFollowUp ==
    \/ FuAnalyzer
    \/ FuDebater
    \/ FuSynthesizer

SpecFollowUp == InitFollowUp /\ [][NextFollowUp]_vars

\* ================================================================ claims
IsPrefix(a, b) == Len(a) <= Len(b) /\ \A i \in 1..Len(a) : a[i] = b[i]


NodeNames == { PIPELINE_ORDER[i] : i \in 1..Len(PIPELINE_ORDER) }

\* The agents_log entries the completed steps contributed, in completion order
RECURSIVE ContributedLog(_)
ContributedLog(cs) ==
    IF cs = <<>> THEN <<>>
    ELSE ContributedLog(SubSeq(cs, 1, Len(cs) - 1)) \o UpdLog(cs[Len(cs)].update)

IsDebateKey(k) == k \in {"advocate", "skeptic", "mediator"}
DebateCalls == SelectSeq(llm_calls, IsDebateKey)

RoleKeys == << "advocate", "skeptic", "mediator" >>

DebateDone == \E i \in 1..Len(chunks) : chunks[i].node = "debate"
DebateChunk == chunks[CHOOSE i \in 1..Len(chunks) : chunks[i].node = "debate"]

\* C1: on every normally completing run the six steps run exactly once each in
\* the order of PIPELINE_ORDER; the step that runs next is always the successor
\* of the last completed one, so none is skipped, repeated or reordered.
C1_FixedOrder ==
    /\ Len(chunks) <= Len(PIPELINE_ORDER)
    /\ \A i \in 1..Len(chunks) : chunks[i].node = PIPELINE_ORDER[i]
    /\ pc \in NodeNames => pc = PIPELINE_ORDER[Len(chunks) + 1]
    /\ pc \in {"END", "done"} => Len(chunks) = Len(PIPELINE_ORDER)
    /\ pc \in {"END", "done"} =>
          /\ llm_calls[1] = "analyzer"
          /\ llm_calls[Len(llm_calls)] = "synthesizer"
          /\ \A n \in NodeNames \ {"debate"} :
                Cardinality({i \in 1..Len(llm_calls) : llm_calls[i] = n}) = 1

C1_Witness == pc = "done" /\ Len(chunks) = 6 /\ Len(DebateCalls) = 6

\* C2: after each step agents_log is the concatenation, in completion order,
\* of the entries contributed by all the steps completed so far, and the
\* /research response carries that whole log.
C2_AgentsLogAccumulates ==
    /\ state.agents_log = ContributedLog(chunks)
    /\ response.status = 200 => response.agents_log = ContributedLog(chunks)

\* citations as the steps completed so far leave it
C3_Expected ==
    IF Len(chunks) = 0 THEN <<>>
    ELSE IF Len(chunks) = 1 THEN <<>>
    ELSE IF Len(chunks) = 2 THEN TrialCitations(state.api_data["trials"])
    ELSE TrialCitations(state.api_data["trials"])
            \o PubmedCitations(state.api_data["pubmed"])
            \o SemanticCitations(state.api_data["semantic"])

\* C3: citations is append-only (each step leaves the earlier citations in
\* place), and from the trials scout on it is the scout's citations followed,
\* after the literature miner, by the miner's PubMed and Semantic Scholar
\* citations, duplicates kept.
C3_CitationsAppendOnly ==
    /\ [](state.citations = C3_Expected)
    /\ [][IsPrefix(state.citations, state'.citations)]_vars

C3_Witness ==
    /\ pc = "done"
    /\ Len(state.citations) = 3 * MaxCit
    /\ state.citations[1].src = "trials"
    /\ \E i, j \in 1..Len(state.citations) :
          i # j /\ state.citations[i].doi = state.citations[j].doi

\* a finished debate of n calls and blocks labelled 'Round k/R'
C4_Shape(R, n) ==
    LET h == state.debate.history
        log == UpdLog(DebateChunk.update)
    IN  /\ Len(DebateCalls) = n
        /\ \A j \in 1..Len(DebateCalls) : DebateCalls[j] = RoleKeys[((j - 1) % 3) + 1]
        /\ Len(h) = n
        /\ \A j \in 1..Len(h) :
              /\ h[j].role = Roles[((j - 1) % 3) + 1]
              /\ h[j].round = ((j - 1) \div 3) + 1
              /\ h[j].of = R
        /\ Len(log) = n
        /\ \A j \in 1..Len(log) :
              /\ log[j].agent = << Roles[((j - 1) % 3) + 1], ((j - 1) \div 3) + 1 >>
              /\ j <= Len(h) /\ log[j].content = h[j].text
        /\ pc = "synthesizer" =>
              /\ Len(state.agents_log) >= Len(log)
              /\ SubSeq(state.agents_log, Len(state.agents_log) - Len(log) + 1,
                        Len(state.agents_log)) = log
        /\ state.debate.round = R
        /\ state.debate.max_rounds = R

\* C4: a debate entered at round 0 with an empty transcript and
\* max_rounds = R makes exactly 3R gateway calls, leaves 3R blocks
\* Advocate, Skeptic, Mediator labelled 'Round k/R', contributes 3R log
\* entries in that order and writes round = R.
C4_DebateMakes3RCalls ==
    DebateDone => C4_Shape(EffectiveRounds(req_rounds), 3 * EffectiveRounds(req_rounds))

\* C5: across a run debate.round never decreases and the transcript is only
\* appended to, whatever rounds value the request carried.
C5_RoundNeverDecreases ==
    [][ /\ state'.debate.round >= state.debate.round
        /\ IsPrefix(state.debate.history, state'.debate.history) ]_vars

\* the state of a run in which a step has raised
C7_AbortInv ==
    /\ \A i \in 1..Len(events) : events[i].event = "error" => i = Len(events)
    /\ pc = "error" =>
          /\ Len(chunks) < Len(PIPELINE_ORDER)
          /\ state.brief = 0
          /\ mode = "stream" =>
                /\ Len(events) >= 1
                /\ events[Len(events)].event = "error"
                /\ \A i \in 1..Len(events) :
                      /\ events[i].event \notin {"done", "citations"}
                      /\ events[i].agent # << "Synthesizer", 0 >>
                      /\ events[i].node # "synthesizer" \/ events[i].event = "status"
          /\ mode = "invoke" => response.status = 500 /\ response.brief = 0

\* C7: once a step has raised, no later step runs, the stream ends with its
\* only error event and carries no done event, no citations event and no
\* brief; /research answers 500 without a brief.
C7_RaisedStepAbortsRun ==
    /\ []C7_AbortInv
    /\ [][pc = "error" => (pc' = "error" /\ chunks' = chunks /\ llm_calls' = llm_calls
                            /\ events' = events /\ response' = response)]_vars

C7_Witness ==
    /\ pc = "error"
    /\ mode = "stream"
    /\ Len(chunks) = 5
    /\ all_citations # <<>>
    /\ events[Len(events)].event = "error"

\* kinds of stream events
IsNodeComplete(e) == e.event = "node_complete"
IsAgentEvent(e) == e.event = "agent"
IsStatus(e) == e.event = "status"

\* C8: in streaming mode every completed step has exactly one node_complete
\* event with its name, then its log entries, then the status of the next step
\* of the fixed order (none after synthesizer); every log entry of the run is
\* emitted once, in step order; done ends a successful run.
C8_StreamShape ==
    mode = "stream" =>
        LET ncs == SelectSeq(events, IsNodeComplete)
            ags == SelectSeq(events, IsAgentEvent)
            sts == SelectSeq(events, IsStatus)
            all == ContributedLog(chunks)
        IN  /\ Len(ncs) = Len(chunks)
            /\ \A k \in 1..Len(ncs) : ncs[k].node = chunks[k].node
            /\ Len(ags) = Len(all)
            /\ \A j \in 1..Len(ags) :
                  ags[j].agent = all[j].agent /\ ags[j].content = all[j].content
            /\ \A i \in 1..Len(events) :
                  IsNodeComplete(events[i]) =>
                    LET k == Len(SelectSeq(SubSeq(events, 1, i), IsNodeComplete))
                        log == UpdLog(chunks[k].update)
                        last == (k = Len(PIPELINE_ORDER))
                    IN  /\ i + Len(log) + (IF last THEN 0 ELSE 1) <= Len(events)
                        /\ \A j \in 1..Len(log) :
                              /\ IsAgentEvent(events[i + j])
                              /\ events[i + j].node = chunks[k].node
                              /\ events[i + j].agent = log[j].agent
                              /\ events[i + j].content = log[j].content
                        /\ ~last =>
                              /\ IsStatus(events[i + Len(log) + 1])
                              /\ events[i + Len(log) + 1].node = PIPELINE_ORDER[k + 1]
                        /\ last =>
                              \A m \in (i + 1)..Len(events) : ~IsStatus(events[m])
            /\ Len(sts) = (IF Len(chunks) < Len(PIPELINE_ORDER)
                           THEN Len(chunks) + 1 ELSE Len(chunks))
            /\ \A k \in 1..Len(sts) : sts[k].node = PIPELINE_ORDER[k]
            /\ \A i \in 1..Len(events) : events[i].event = "done" => i = Len(events)
            /\ pc = "done" => events[Len(events)].event = "done"

C8_Witness ==
    /\ mode = "stream"
    /\ pc = "done"
    /\ Len(SelectSeq(events, IsAgentEvent)) = 11
    /\ \E i \in 1..Len(events) : events[i].event = "citations"

\* what is visible of a debate while it runs and after it has returned
C6_Visible ==
    /\ Len(state.debate.history) % 3 = 0
    /\ \A i \in 1..Len(chunks) :
          "debate" \in DOMAIN chunks[i].update =>
              /\ Len(chunks[i].update.debate.history) % 3 = 0
              /\ chunks[i].update.debate.round = chunks[i].update.debate.max_rounds
    /\ (dpc # "idle" \/ DebateDone) =>
          ~(d_start < state.debate.round /\ state.debate.round < d_max)
    /\ (dpc # "idle" /\ ~DebateDone) =>
          /\ state.debate.round = d_start
          /\ IsPrefix(state.debate.history, d_history)
          /\ Len(d_history) - Len(state.debate.history)
                = 3 * (d_r - d_start)
                    + (CASE dpc = "skeptic" -> 1 [] dpc = "mediator" -> 2 [] OTHER -> 0)
    /\ DebateDone =>
          LET h == state.debate.history
              n == 3 * Max(d_max - d_start, 0)
              base == Len(h) - n
          IN  /\ base = 3 * d_start
              /\ Len(DebateCalls) = n
              /\ \A j \in 1..n :
                    /\ h[base + j].round = d_start + ((j - 1) \div 3) + 1
                    /\ h[base + j].role = Roles[((j - 1) % 3) + 1]
                    /\ h[base + j].of = d_max
              /\ state.debate.round = d_max

\* C6: the debate step publishes round and transcript in one update at its
\* end: while it runs the visible state is the one it read; no visible round
\* lies strictly between the round read and max_rounds and no visible
\* transcript ends inside a round; entered at round k < max_rounds it runs
\* exactly the rounds k+1..max_rounds, each as Advocate, Skeptic, Mediator.
C6_DebatePublishesAtomically ==
    /\ []C6_Visible
    /\ [][(pc = "debate" /\ pc' = "debate") => state' = state]_vars

C6_Witness ==
    /\ DebateDone
    /\ d_start = 1
    /\ d_max = 2
    /\ Len(state.debate.history) = 6
    /\ Len(DebateCalls) = 3

\* the last two events of a linking run that reached validation
ValidationReached ==
    \E i \in 1..Len(l_events) :
        l_events[i].event = "status" /\ l_events[i].agent = "Link Validator"

EndsWithResultAndDone ==
    /\ Len(l_events) >= 2
    /\ l_events[Len(l_events)].event = "done"
    /\ l_events[Len(l_events) - 1].event = "result"
    /\ l_events[Len(l_events) - 1].data.t = "dict"
    /\ {"trial_links", "summary"} \subseteq l_events[Len(l_events) - 1].data.keys

\* C9: in the linking subsystem no outcome of a gateway call (ranking,
\* full-text classification, validation) aborts the run: no exception leaves
\* the orchestrator, and a run that came to validation ends with a result
\* event whose data has trial_links and summary, followed by done.
C9_NoGatewayOutcomeAborts ==
    /\ l_pc # "aborted"
    /\ (l_pc = "returned" /\ ValidationReached) => EndsWithResultAndDone

\* C10: for a record list that is not empty, what validate_links returns is
\* either the gateway's JSON object containing trial_links or the
\* deterministic fallback, with one trial_links entry per record (so never an
\* empty trial_links in place of the fallback).
C10_FallbackWheneverUnparsed ==
    (l_validated # NoData /\ l_records # <<>>) =>
        \/ /\ l_validated.src = "gateway"
           /\ l_validated.t = "dict"
           /\ "trial_links" \in l_validated.keys
        \/ /\ l_validated.src = "fallback"
           /\ l_validated = FallbackValidation(l_records)
           /\ Len(l_validated.links) = Len(l_records)

\* events that carry a message or a result (neither status, done nor error)
IsMessage(e) == e.event \in {"agent", "result"}
\* events of the stages after step 1
IsStageEvent(e) ==
    e.agent \in {"Registry Enricher", "PubMed Linker", "Full-Text Extractor", "Link Validator"}

EnrichmentDone == l_pc \in {"link", "extract", "validate", "returned", "aborted"}
                    /\ l_search.st # "raised" /\ ~(l_search.st = "returned" /\ l_search.n = 0)

RECURSIVE CountOf(_, _)
CountOf(seq, x) ==
    IF seq = <<>> THEN 0
    ELSE (IF Head(seq) = x THEN 1 ELSE 0) + CountOf(Tail(seq), x)

\* what enrichment left, once it has run
C12_Inv ==
    EnrichmentDone =>
        /\ CountOf(l_calls, "enrich_trial") = Len(l_nct_ids)
        /\ Len(l_enriched) = Len(l_nct_ids)
        /\ \A i \in 1..Len(l_enriched) : l_enriched[i].nct_id = l_nct_ids[i]
        /\ \A i \in 1..Len(l_enriched) :
              l_enriched[i].error =>
                  /\ \A j \in 1..Len(l_valid) : l_valid[j] # l_enriched[i].nct_id
                  /\ \A j \in 1..Len(l_records) : l_records[j].nct_id # l_enriched[i].nct_id
                  /\ \A j \in 1..Len(l_validated.links) :
                        l_validated.src = "fallback" =>
                            l_validated.links[j].nct_id # l_enriched[i].nct_id
        /\ Len(l_valid) = Cardinality({ i \in 1..Len(l_enriched) : ~l_enriched[i].error })
        /\ \A j \in 1..Len(l_records) : l_records[j].nct_id = l_valid[j]
        /\ \E k \in 1..Len(l_events) :
              /\ l_events[k].event = "agent"
              /\ l_events[k].agent = "Registry Enricher"
              /\ l_events[k].nums = << Len(l_valid), Len(l_nct_ids) >>

C13_InFlight(tasks) ==
    {i \in 1..Len(tasks) : tasks[i].stage = "extract" /\ tasks[i].st = "running"}
C13_Queued(tasks) ==
    {i \in 1..Len(tasks) : tasks[i].stage = "extract" /\ tasks[i].st = "waiting"}

C13_AtMostThreeInFlight == Cardinality(C13_InFlight(t_tasks)) <= MAX_CONCURRENT

\* a batch of more than three publications with three extractions in flight
\* and one queued behind them
C13_Witness ==
    /\ t_kind = "batch"
    /\ t_n > MAX_CONCURRENT
    /\ Cardinality(C13_InFlight(t_tasks)) = MAX_CONCURRENT
    /\ C13_Queued(t_tasks) # {}

\* ---- C14: work beyond the concurrency limit is queued, not rejected: for
\* every list of publications passed to extract_batch, every publication is
\* extracted and the returned list has exactly one result per input
\* publication.
C14_OneResultPerPublication ==
    (t_kind = "batch" /\ t_pc = "returned") =>
        /\ Len(t_results) = t_n
        /\ \A j \in 1..t_n :
              \E i \in 1..Len(t_tasks) : t_tasks[i].item = j /\ t_tasks[i].st = "done"

\* ---- C15: each linking stage is a fan-out/fan-in: the stage's completion
\* event is emitted, and the next stage started, only after every enrichment,
\* publication-search, repository-search or extraction task dispatched by
\* that stage has completed, and no dispatched task is still running when the
\* orchestrator emits done.
C15_StageKinds(agent) ==
    CASE agent = "Registry Enricher" -> {"enrich"}
      [] agent = "PubMed Linker" -> {"pubmed", "repo"}
      [] agent = "Full-Text Extractor" -> {"extract"}
      [] OTHER -> {}

C15_AllDone(kinds) ==
    \A i \in 1..Len(t_tasks) : t_tasks[i].stage \in kinds => t_tasks[i].st = "done"

C15_Started(kinds) ==
    \E i \in 1..Len(t_tasks) : t_tasks[i].stage \in kinds

C15_FanOutFanIn ==
    t_kind = "linking" =>
        /\ \A k \in 1..Len(t_events) :
              /\ t_events[k].event = "agent" =>
                    C15_AllDone(C15_StageKinds(t_events[k].agent))
              /\ (t_events[k].event = "status" /\ t_events[k].agent = "PubMed Linker") =>
                    C15_AllDone({"enrich"})
              /\ (t_events[k].event = "status" /\ t_events[k].agent = "Full-Text Extractor") =>
                    C15_AllDone({"enrich", "pubmed", "repo"})
              /\ (t_events[k].event = "status" /\ t_events[k].agent = "Link Validator") =>
                    C15_AllDone({"enrich", "pubmed", "repo", "extract"})
              /\ t_events[k].event = "done" =>
                    \A i \in 1..Len(t_tasks) : t_tasks[i].st \notin {"waiting", "running"}
        /\ C15_Started({"pubmed", "repo"}) => C15_AllDone({"enrich"})
        /\ C15_Started({"extract"}) => C15_AllDone({"enrich", "pubmed", "repo"})

\* a run that dispatched tasks in all three stages and emitted done
C15_Witness ==
    /\ t_kind = "linking"
    /\ t_pc = "returned"
    /\ t_events[Len(t_events)].event = "done"
    /\ C15_Started({"enrich"})
    /\ C15_Started({"repo"})
    /\ Cardinality({i \in 1..Len(t_tasks) : t_tasks[i].stage = "extract"}) > 1

\* ---- C16: concurrently dispatched tasks never write a trial record: each
\* task only returns a value, and a record's pubmed_candidates,
\* repository_hits and fulltext_data are assigned by the control flow after
\* the corresponding join, so no interleaving of the tasks leaves a lost or
\* torn update in a record.
C16_ResultOf(stage, nct) ==
    LET i == CHOOSE i \in 1..Len(t_tasks) :
                 t_tasks[i].stage = stage /\ t_tasks[i].trial = nct
    IN  t_tasks[i].res

C16_RecordsWhole ==
    \A k \in 1..Len(t_records) :
        LET rec == t_records[k]
            n == TopCandidates(rec.pubmed_candidates)
        IN  /\ rec.pubmed_candidates = C16_ResultOf("pubmed", rec.nct_id)
            /\ rec.repository_hits = C16_ResultOf("repo", rec.nct_id)
            /\ rec.fulltext_data \in {<<>>, [j \in 1..n |-> j]}

C16_OnlyControlFlowWrites ==
    /\ []C16_RecordsWhole
    /\ [][t_records' # t_records =>
            /\ t_pc \in {"link_join", "extract_join"}
            /\ JoinReady(t_tasks)
            /\ t_tasks' = t_tasks]_vars

\* a finished run one of whose records was filled from three extractions
\* that did not finish in the order they were issued
C16_Witness ==
    /\ t_kind = "linking"
    /\ t_pc = "returned"
    /\ \E k \in 1..Len(t_records) :
          /\ Len(t_records[k].fulltext_data) = TOP_CANDIDATES
          /\ t_records[k].repository_hits = 1
    /\ Len(t_order) = TOP_CANDIDATES
    /\ t_order[1] > t_order[2]

\* the control flow holds the list its last gather returned
C17_Joined ==
    /\ t_pc \notin {"enrich_join", "link_join", "extract_join", "batch_join",
                    "lit_join", "aborted"}
    /\ t_order # <<>>

\* ---- C17 as stated: the results of the concurrently dispatched items of a
\* stage (enrichment calls, extractions, the PubMed and Semantic Scholar
\* fetches) are ordered as the items completed.
C17_ResultsInCompletionOrder ==
    C17_Joined =>
        /\ Len(t_results) = Len(t_order)
        /\ \A k \in 1..Len(t_results) : t_results[k].item = t_tasks[t_order[k]].item

\* ---- C17, amended: the results of the concurrently dispatched items of a
\* stage are ordered as the items were issued, whatever the order in which
\* they completed; the valid records and a record's full-text results keep
\* that order.
C17_ResultsInIssueOrder ==
    /\ C17_Joined =>
          /\ Len(t_results) = Len(t_order)
          /\ \A k \in 1..Len(t_results) : t_results[k].item = k
    /\ \A a, b \in 1..Len(t_valid) : a < b => t_valid[a] < t_valid[b]
    /\ \A k \in 1..Len(t_records) :
          \A j \in 1..Len(t_records[k].fulltext_data) : t_records[k].fulltext_data[j] = j

\* a gather has returned whose tasks did not finish in the order of issue
C17_Witness ==
    /\ C17_Joined
    /\ Len(t_results) > 1
    /\ \E k \in 1..Len(t_order) : t_tasks[t_order[k]].item # k

\* ---- C19: the full-text extraction stage runs if and only if the total
\* number of candidate publications over all trials is at least 1; within it,
\* extraction is invoked only for trials that have candidates and only for
\* the first 3 candidates of each trial.
C19_Emitted(e) == \E k \in 1..Len(t_events) : t_events[k] = e

C19_Extracted(nct) ==
    {t_tasks[i].item : i \in {i \in 1..Len(t_tasks) :
                                 t_tasks[i].stage = "extract" /\ t_tasks[i].trial = nct}}

C19_ExtractionOnTopThree ==
    t_kind = "linking" =>
        /\ IF C19_Emitted(LAgent("PubMed Linker", "Found"))
           THEN C19_Emitted(LStatus("Full-Text Extractor")) <=> TotalPubs(t_records) >= 1
           ELSE ~C19_Emitted(LStatus("Full-Text Extractor"))
        /\ ~C19_Emitted(LStatus("Full-Text Extractor")) =>
              \A i \in 1..Len(t_tasks) : t_tasks[i].stage # "extract"
        /\ \A i \in 1..Len(t_tasks) :
              t_tasks[i].stage = "extract" =>
                 \E k \in 1..Len(t_records) :
                    /\ t_records[k].nct_id = t_tasks[i].trial
                    /\ t_records[k].pubmed_candidates >= 1
                    /\ t_tasks[i].item <= t_records[k].pubmed_candidates
                    /\ t_tasks[i].item <= 3
        /\ t_pc = "returned" =>
              \A k \in 1..Len(t_records) :
                 C19_Extracted(t_records[k].nct_id) =
                    {j \in 1..t_records[k].pubmed_candidates : j <= 3}

\* a finished run with a trial of more than three candidates, of which three
\* were extracted, and a trial without candidates, for which none was
C19_Witness ==
    /\ t_kind = "linking"
    /\ t_pc = "returned"
    /\ \E k \in 1..Len(t_records) :
          /\ t_records[k].pubmed_candidates > 3
          /\ Len(t_records[k].fulltext_data) = 3
    /\ \E k \in 1..Len(t_records) :
          /\ t_records[k].pubmed_candidates = 0
          /\ t_records[k].fulltext_data = <<>>

\* ---- C18: in publication linking for a trial, the heuristic metadata
\* search is issued if and only if the structured search by trial id
\* returned fewer than 3 citations, it is issued only after the structured
\* search has returned, and the candidate set handed to ranking is the
\* structured-search citations followed by the heuristic-search citations.
C18_At(call) ==
    IF \E k \in 1..Len(pl.calls) : pl.calls[k] = call
    THEN CHOOSE k \in 1..Len(pl.calls) : pl.calls[k] = call
    ELSE 0

C18_HeuristicOnlyBelowThree ==
    pl.pc \notin {"off", "start"} =>
        /\ C18_At("search_by_trial_metadata") > 0 =>
              /\ C18_At("search_by_nct returned") > 0
              /\ C18_At("search_by_trial_metadata") > C18_At("search_by_nct returned")
        /\ C18_At("search_by_nct returned") > 0 =>
              (C18_At("search_by_trial_metadata") > 0 <=> Len(pl.nct_citations) < 3)
        /\ C18_At("pubmed_linker") > 0 =>
              /\ pl.all_citations = pl.nct_citations \o pl.heuristic_citations
              /\ \A k \in 1..Len(pl.all_citations) :
                    pl.all_citations[k].src =
                       IF k <= Len(pl.nct_citations) THEN "nct" ELSE "heuristic"
              /\ C18_At("search_by_trial_metadata") > 0 =>
                    C18_At("search_by_trial_metadata returned") \in
                       (C18_At("search_by_trial_metadata") + 1)..(C18_At("pubmed_linker") - 1)

\* the structured search brought two citations, the heuristic search one
\* more, and the three were handed to ranking
C18_Witness ==
    /\ pl.pc = "returned"
    /\ Len(pl.nct_citations) = 2
    /\ Len(pl.heuristic_citations) = 1
    /\ Len(pl.all_citations) = 3
    /\ C18_At("pubmed_linker") > 0

\* ---- C20: in extract_publication_data, whenever the gateway classification
\* call raises or its output cannot be used, the returned record is
\* determined solely by the rule-based scan: availability_type is open_access
\* if the scan found a repository name and not_stated otherwise,
\* statement_snippet comes from the scanned statement, and no field of the
\* record retains a value taken from the gateway response.
C20_RuleBasedOnly ==
    (xp.pc = "returned" /\ xp.failed) =>
        /\ xp.result.availability_type =
              [v |-> IF xp.data_info.repositories THEN "open_access" ELSE "not_stated",
               from |-> "scan"]
        /\ xp.result.statement_snippet = "scan"
        /\ xp.result.supplementary_urls # "gateway"
        /\ xp.result.notes # "gateway"
        /\ "gateway" \notin xp.result.repository_urls
        /\ "gateway" \notin xp.result.repository_names

\* the validation call returned what _fallback_validation built
FvFellBack == fv.pc \in {"returned", "rerun"} /\ fv.validated.src = "fallback"

\* the full-text records of the call's i-th record confirm pmid
FvConfirmed(i, pmid) ==
    \E k \in 1..Len(fv.given[i].fulltext_data) :
        /\ fv.given[i].fulltext_data[k].pmid = pmid
        /\ fv.given[i].fulltext_data[k].nct_mentioned

\* the score of the j-th candidate of the call's i-th record
FvScore(i, j) ==
    LET c == fv.given[i].pubmed_candidates.items[j]
    IN  IF "confidence" \in DOMAIN c THEN c.confidence ELSE 30

\* ---- C21: in the validator fallback, for every candidate score, if a
\* full-text record of the same trial has the same pmid and nct_mentioned
\* true, the aggregated publication has tier high and score max(score, 80)
\* (score 20 gives tier high with score >= 80), and a publication with no
\* such full-text record keeps its score-derived tier and its score.
C21_ForceUpgrade ==
    FvFellBack =>
        \A i \in 1..Len(fv.validated.links) :
            \A j \in 1..Len(fv.validated.links[i].publications) :
                LET p == fv.validated.links[i].publications[j]
                    score == FvScore(i, j)
                IN  IF FvConfirmed(i, p.pmid)
                    THEN /\ p.confidence_tier = "high"
                         /\ p.confidence_score = (IF score > 80 THEN score ELSE 80)
                         /\ p.confidence_score >= 80
                    ELSE /\ p.confidence_score = score
                         /\ p.confidence_tier =
                               (IF score >= 70 THEN "high"
                                ELSE IF score >= 50 THEN "medium" ELSE "low")

\* a candidate of score 20 confirmed by its full-text record, next to one of
\* score 20 that is not
C21_Witness ==
    /\ FvFellBack
    /\ Len(fv.given) = 1
    /\ Len(fv.validated.links[1].publications) > 1
    /\ FvScore(1, 1) = 20 /\ FvConfirmed(1, 1)
    /\ fv.validated.links[1].publications[1].confidence_tier = "high"
    /\ fv.validated.links[1].publications[1].confidence_score = 80
    /\ FvScore(1, 2) = 20 /\ ~FvConfirmed(1, 2)
    /\ fv.validated.links[1].publications[2].confidence_tier = "low"

\* ---- C22: in every result returned by validate_links, on the gateway path
\* as well as on the fallback path, a publication whose trial has a full-text
\* record with the same pmid and nct_mentioned true carries tier high: the
\* tier supplied by the gateway or by the upstream score is recomputed, not
\* trusted.
C22_TierRecomputedOnEveryPath ==
    (fv.pc \in {"returned", "rerun"} /\ fv.validated.shape = "entries") =>
        \A i \in 1..Len(fv.validated.links) :
            \A j \in 1..Len(fv.validated.links[i].publications) :
                FvConfirmed(i, fv.validated.links[i].publications[j].pmid) =>
                    fv.validated.links[i].publications[j].confidence_tier = "high"

\* ---- C23: in the validator fallback each trial's publications are exactly
\* its first 3 ranked candidates (all of them if fewer than 3) in candidate
\* order, and before any force-upgrade each gets tier high if its score >= 70,
\* medium if 50 <= score < 70 and low if score < 50, a candidate without a
\* score being scored 30 and hence low.  (The tier before the upgrade shows
\* in the result on the publications that are not upgraded.)
C23_TopThreeTieredByScore ==
    FvFellBack =>
        \A i \in 1..Len(fv.given) :
            LET cands == fv.given[i].pubmed_candidates.items
                pubs == fv.validated.links[i].publications
            IN  /\ Len(pubs) = (IF Len(cands) < 3 THEN Len(cands) ELSE 3)
                /\ \A j \in 1..Len(pubs) :
                      /\ pubs[j].pmid = cands[j].pmid
                      /\ ~FvConfirmed(i, pubs[j].pmid) =>
                            /\ FvScore(i, j) >= 70 => pubs[j].confidence_tier = "high"
                            /\ (FvScore(i, j) >= 50 /\ FvScore(i, j) < 70) =>
                                  pubs[j].confidence_tier = "medium"
                            /\ FvScore(i, j) < 50 => pubs[j].confidence_tier = "low"
                            /\ "confidence" \notin DOMAIN cands[j] =>
                                  /\ pubs[j].confidence_score = 30
                                  /\ pubs[j].confidence_tier = "low"

\* four candidates scored 70, 50, none and 90, none confirmed: three
\* publications, tiered high, medium and low
C23_Witness ==
    /\ FvFellBack
    /\ Len(fv.given[1].pubmed_candidates.items) = 4
    /\ fv.given[1].fulltext_data = <<>>
    /\ FvScore(1, 1) = 70 /\ FvScore(1, 2) = 50 /\ FvScore(1, 4) = 90
    /\ "confidence" \notin DOMAIN fv.given[1].pubmed_candidates.items[3]
    /\ Len(fv.validated.links[1].publications) = 3
    /\ fv.validated.links[1].publications[1].confidence_tier = "high"
    /\ fv.validated.links[1].publications[2].confidence_tier = "medium"
    /\ fv.validated.links[1].publications[3].confidence_tier = "low"

\* the availability types of the full-text records of the call's i-th record
FvAvailTypes(i) ==
    { fv.given[i].fulltext_data[k].availability_type :
        k \in 1..Len(fv.given[i].fulltext_data) }

\* ---- C24: in the validator fallback a trial's data_availability label
\* follows the availability types of its full-text records with the fixed
\* precedence open_access > on_request > restricted > none, independently of
\* the order of the records.
C24_AvailabilityPrecedence ==
    FvFellBack =>
        \A i \in 1..Len(fv.given) :
            fv.validated.links[i].data_availability =
                (IF "open_access" \in FvAvailTypes(i) THEN "Open-access data available"
                 ELSE IF "on_request" \in FvAvailTypes(i) THEN "Data available on request"
                 ELSE IF "restricted" \in FvAvailTypes(i) THEN "Restricted access data"
                 ELSE "No data availability information found")

\* the open-access record comes last, after a restricted and an on-request one
C24_Witness ==
    /\ FvFellBack
    /\ Len(fv.given[1].fulltext_data) = 3
    /\ fv.given[1].fulltext_data[1].availability_type = "restricted"
    /\ fv.given[1].fulltext_data[2].availability_type = "on_request"
    /\ fv.given[1].fulltext_data[3].availability_type = "open_access"
    /\ fv.validated.links[1].data_availability = "Open-access data available"

\* every record of the call has no publication candidates
FvNoCandidates ==
    \A i \in 1..Len(fv.given) : fv.given[i].pubmed_candidates.items = <<>>

\* ---- C25 as stated: given trial records that have no publication
\* candidates, the fallback's trial_links has exactly one entry per input
\* record, in input order, each with empty publications and data_availability
\* equal to "no information found".
C25_OneEntryPerTrial ==
    (FvFellBack /\ FvNoCandidates) =>
        /\ Len(fv.validated.links) = Len(fv.given)
        /\ \A i \in 1..Len(fv.given) :
              /\ fv.validated.links[i].nct_id = fv.given[i].nct_id
              /\ fv.validated.links[i].publications = <<>>
              /\ fv.validated.links[i].data_availability = "no information found"

\* ---- C25, amended: ... each with empty publications and data_availability
\* equal to "No data availability information found".
C25_OneEntryPerTrialLabelled ==
    (FvFellBack /\ FvNoCandidates) =>
        /\ Len(fv.validated.links) = Len(fv.given)
        /\ \A i \in 1..Len(fv.given) :
              /\ fv.validated.links[i].nct_id = fv.given[i].nct_id
              /\ fv.validated.links[i].publications = <<>>
              /\ fv.validated.links[i].data_availability =
                    "No data availability information found"

\* the fallback ran on two records without candidates
C25_Witness ==
    /\ FvFellBack
    /\ FvNoCandidates
    /\ Len(fv.given) = 2
    /\ Len(fv.validated.links) = 2

C27_RankingFallback ==
    (pl.pc = "returned" /\ pl.nct_id # 0) =>
        LET raw == pl.nct_citations \o pl.heuristic_citations
        IN  /\ raw = <<>> =>
                  /\ C18_At("pubmed_linker") = 0
                  /\ pl.out = [k |-> "list", items |-> <<>>]
            /\ raw # <<>> => C18_At("pubmed_linker") > 0
            /\ pl.gw \in {"raise", "invalid"} =>
                  /\ pl.out.k = "list"
                  /\ pl.out.items # <<>>
                  /\ Len(pl.out.items) <= 5
                  /\ Len(pl.out.items) = (IF Len(raw) < 5 THEN Len(raw) ELSE 5)
                  /\ \A j \in 1..Len(pl.out.items) :
                        /\ pl.out.items[j].match_type = "metadata_heuristic"
                        /\ pl.out.items[j].pmid = raw[j].pmid

\* the structured search brought six citations, the gateway call raised, and
\* five candidates came back
C27_Witness ==
    /\ pl.pc = "returned"
    /\ pl.gw = "raise"
    /\ Len(pl.nct_citations) = 6
    /\ Len(pl.out.items) = 5

\* ---- C28: whatever text the gateway returned to the analyzer (no JSON, JSON
\* in a fence, JSON missing primary_concepts or search_queries, JSON that is
\* not an object), the analyzer step completes: its chunk is the first one
\* yielded and carries a search_criteria with both names, the validated
\* response or the heuristic fallback; the text never makes the step raise.
C28_AnalyzerAbsorbsEveryText ==
    raw_response.st = "returned" =>
        /\ chunks # <<>>
        /\ chunks[1].node = "analyzer"
        /\ chunks[1].update.search_criteria \in {"llm", "fallback"}

\* ---- C29: a call of a data source (trial search, PubMed search, trial
\* enrichment, full-text fetch, repository search) that met a transport
\* failure (a timeout, no connection, a status other than 200, a malformed
\* payload) returns; it never raises into the calling step and the run is
\* never aborted.
C29_Failure(r) ==
    r.net # "ok" \/ r.status # 200 \/ r.body \in {"not_json", "list", "num_field"}

C29_TransportFailuresAbsorbed ==
    (tc.pc # "off" /\ \E i \in 1..Len(tc.resps) : C29_Failure(tc.resps[i])) =>
        /\ tc.pc # "raised"
        /\ tc.run # "aborted"

\* ---- C30: once the analyzer has run, no later step changes search_criteria
\* or analysis; no step changes target or clarification; hypotheses is written
\* by hypothesis_generator alone and brief by synthesizer alone, neither more
\* than once in any run and each exactly once in a run that reaches the end.
C30_Writes(key) == {i \in 1..Len(chunks) : key \in DOMAIN chunks[i].update}

C30_FrameOfTheState ==
    /\ [](/\ \A i \in C30_Writes("hypotheses") : chunks[i].node = "hypothesis_generator"
          /\ \A i \in C30_Writes("brief") : chunks[i].node = "synthesizer"
          /\ \A i \in C30_Writes("search_criteria") \cup C30_Writes("analysis") :
                chunks[i].node = "analyzer"
          /\ C30_Writes("target") \cup C30_Writes("clarification") = {}
          /\ Cardinality(C30_Writes("hypotheses")) <= 1
          /\ Cardinality(C30_Writes("brief")) <= 1
          /\ pc \in {"END", "done"} =>
                /\ Cardinality(C30_Writes("hypotheses")) = 1
                /\ Cardinality(C30_Writes("brief")) = 1)
    /\ [][/\ state'.target = state.target
          /\ state'.clarification = state.clarification
          /\ pc # "analyzer" =>
                /\ state'.search_criteria = state.search_criteria
                /\ state'.analysis = state.analysis
          /\ state'.hypotheses # state.hypotheses => pc = "hypothesis_generator"
          /\ state'.brief # state.brief => pc = "synthesizer"]_vars

\* a finished run of the graph: every step wrote, and the state still carries
\* what the analyzer and the request gave
C30_Witness ==
    /\ pc = "done"
    /\ Len(chunks) = Len(PIPELINE_ORDER)
    /\ state.clarification = "clarified"
    /\ state.analysis = chunks[1].update.analysis
    /\ state.hypotheses # 0
    /\ state.brief # 0

\* ---- C31: api_data is merged by key: a step never drops a key an earlier
\* step wrote, and changes the value of a key only when it wrote that key
\* itself (trials_scout: trials; literature_miner: pubmed, semantic, papers);
\* so after literature_miner api_data holds the trials entry trials_scout
\* wrote next to pubmed, semantic and papers.
C31_Written(node) ==
    CASE node = "trials_scout" -> {"trials"}
      [] node = "literature_miner" -> {"pubmed", "semantic", "papers"}
      [] OTHER -> {}

C31_ApiDataMergedByKey ==
    /\ [][\A k \in DOMAIN state.api_data :
            /\ k \in DOMAIN state'.api_data
            /\ state'.api_data[k] # state.api_data[k] => k \in C31_Written(pc)]_vars
    /\ [](\A i \in 1..Len(chunks) :
            chunks[i].node = "literature_miner" =>
                /\ {"trials", "pubmed", "semantic", "papers"} \subseteq DOMAIN state.api_data
                /\ \E j \in 1..(i - 1) :
                      /\ chunks[j].node = "trials_scout"
                      /\ state.api_data["trials"] = chunks[j].update.api_data["trials"])

\* literature_miner has run after a trials_scout that found trials
C31_Witness ==
    /\ Len(chunks) >= 3
    /\ chunks[3].node = "literature_miner"
    /\ DOMAIN state.api_data = {"trials", "pubmed", "semantic", "papers"}
    /\ state.api_data["trials"] = MaxCit
    /\ state.api_data["pubmed"] = 0

\* ---- C32: on every linking run that reached enrichment the events after
\* step 1 come in the order Registry Enricher, PubMed Linker, Full-Text
\* Extractor (only when there are candidates), Link Validator, each stage's
\* status before its completion message; a run that has ended emitted exactly
\* one result, immediately followed by done; nothing follows done or error.
C32_Kinds == [i \in 1..Len(l_events) |-> << l_events[i].event, l_events[i].agent >>]

C32_Expected(extracts) ==
    << << "status", "Registry Enricher" >>, << "agent", "Registry Enricher" >>,
       << "status", "PubMed Linker" >>, << "agent", "PubMed Linker" >> >>
    \o (IF extracts
        THEN << << "status", "Full-Text Extractor" >>, << "agent", "Full-Text Extractor" >> >>
        ELSE <<>>)
    \o << << "status", "Link Validator" >>, << "agent", "Link Validator" >>,
          << "result", "" >>, << "done", "" >> >>

C32_AfterStep1 == SubSeq(C32_Kinds, 3, Len(C32_Kinds))

C32_Ended == l_pc \in {"returned", "aborted"}

C32_OrderHolds ==
    /\ \E extracts \in BOOLEAN : IsPrefix(C32_AfterStep1, C32_Expected(extracts))
    /\ \A i \in 1..Len(l_events) :
          l_events[i].event \in {"done", "error"} => i = Len(l_events)

C32_StagesInOrder ==
    EnrichmentDone =>
        /\ C32_OrderHolds
        /\ C32_Ended =>
              \E extracts \in BOOLEAN :
                 /\ C32_AfterStep1 = C32_Expected(extracts)
                 /\ l_pc = "returned" => extracts = (SumLen(l_records) > 0)

\* ---- C33: validate_links returns the gateway's object when the gateway
\* answered with a well-formed JSON object containing trial_links, and it
\* takes the deterministic fallback only when the gateway call raised or its
\* answer did not parse.
C33_GatewayPathReachable ==
    (fv.pc = "returned" /\ fv.fn = "validate_links") =>
        /\ (fv.text.kind = "json" /\ "trial_links" \in fv.text.val.keys) =>
              fv.validated = fv.text.val
        /\ fv.validated.src = "fallback" => fv.text.kind \in {"raise", "invalid"}

\* ---- C34: on both input paths the ids step 1 hands on are the first
\* max_trials non-empty ids of the input, in input order; so the enrichment
\* calls, the enriched records and the trial records handed to validation
\* never number more than max_trials.
C34_Expected(input, max_trials) ==
    LET k == Cardinality({i \in 1..Len(input) : input[i] # 0})
    IN  [i \in 1..(IF k < max_trials THEN k ELSE max_trials) |-> i]

C34_AtMostMaxTrials ==
    /\ [](/\ CountOf(l_calls, "enrich_trial") <= l_max_trials
          /\ Len(l_enriched) <= l_max_trials
          /\ Len(l_records) <= l_max_trials
          /\ l_validated.src = "fallback" => Len(l_validated.links) <= l_max_trials)
    /\ [][(l_pc = "start" /\ l_pc' = "enrich") =>
            l_nct_ids' = C34_Expected(IF l_nct_ids # <<>> THEN l_nct_ids ELSE l_search'.ids,
                                      l_max_trials)]_vars

\* a search that returned more trials than max_trials allows, run to its end
C34_Witness ==
    /\ l_pc = "returned"
    /\ l_max_trials = 1
    /\ Len(NonEmptyIds(l_search.ids)) = 2
    /\ Len(l_enriched) = 1
    /\ Len(l_records) = 1
    /\ l_records[1].nct_id = 1

\* ---- C35: a search_papers call issues at most 5 requests; every attempt
\* before its last met a 429, another status that is not 200, or a timeout;
\* a 200 ends it with the formatted results, any other request exception with
\* the failure text, as does a fifth attempt without success; it never raises.
C35_Retried(r) == r.net = "timeout" \/ (r.net = "ok" /\ r.status # 200)

C35_SearchPapersEnds ==
    (tc.pc # "off" /\ tc.tool = "search_papers") =>
        /\ Len(tc.resps) <= 5
        /\ \A i \in 1..(Len(tc.resps) - 1) : C35_Retried(tc.resps[i])
        /\ tc.pc # "raised"
        /\ tc.pc = "running" =>
              /\ Len(tc.resps) < 5
              /\ \A i \in 1..Len(tc.resps) : C35_Retried(tc.resps[i])
        /\ tc.pc \in {"returned", "done"} =>
              LET last == tc.resps[Len(tc.resps)]
              IN  IF last.net = "ok" /\ last.status = 200
                  THEN tc.out.kind \in {"data", "text"}
                  ELSE /\ tc.out.kind = "text"
                       /\ C35_Retried(last) => Len(tc.resps) = 5

\* ---- C36: a follow-up run performs N = min(max(rounds, 1), 5) rounds; its
\* gateway calls are the analyzer, N times (advocate, skeptic, mediator), the
\* synthesizer, in that order, each call's prompt holding every earlier
\* response; it emits 3N + 2 node_complete events and then done, or, when a
\* call raises, one error event and no done.
C36_N == LET m == IF fu.rounds >= 1 THEN fu.rounds ELSE 1
         IN  IF m <= 5 THEN m ELSE 5

RECURSIVE C36_Rounds(_)
C36_Rounds(n) ==
    IF n = 0 THEN <<>>
    ELSE C36_Rounds(n - 1) \o << "followup_advocate", "followup_skeptic", "followup_mediator" >>

C36_Order == << "followup_analyzer" >> \o C36_Rounds(C36_N) \o << "followup_synthesizer" >>

C36_Count(kind) == Cardinality({i \in 1..Len(fu.events) : fu.events[i].event = kind})

C36_FollowUpRun ==
    fu.pc # "off" =>
        /\ fu.pc \in {"debate", "synthesizer", "done"} => fu.num_rounds = C36_N
        /\ IsPrefix([i \in 1..Len(fu.calls) |-> fu.calls[i].key], C36_Order)
        /\ \A i \in 1..Len(fu.calls) :
              /\ Len(fu.calls[i].prompt) = i - 1
              /\ \A j \in 1..(i - 1) :
                    /\ fu.calls[j].st = "returned"
                    /\ fu.calls[i].prompt[j].text = fu.calls[j].text
        /\ fu.pc = "done" <=> C36_Count("done") = 1
        /\ fu.pc = "error" <=> C36_Count("error") = 1
        /\ C36_Count("done") + C36_Count("error") <= 1
        /\ (\E i \in 1..Len(fu.calls) : fu.calls[i].st = "raised") <=> fu.pc = "error"
        /\ fu.pc = "done" =>
              /\ Len(fu.calls) = 3 * C36_N + 2
              /\ C36_Count("node_complete") = 3 * C36_N + 2
              /\ fu.events[Len(fu.events)].event = "done"
        /\ fu.pc = "error" => fu.events[Len(fu.events)].event = "error"

C36_Witness ==
    /\ fu.pc = "done"
    /\ fu.rounds > 5
    /\ C36_Count("node_complete") = 17

\* ---- C37: in every result of the validator fallback the tier of a
\* publication agrees with its score, after a force-upgrade too: high exactly
\* when the score is at least 70, medium exactly when it is at least 50 and
\* below 70, low exactly when it is below 50.
C37_TierAgreesWithScore ==
    FvFellBack =>
        \A i \in 1..Len(fv.validated.links) :
            \A j \in 1..Len(fv.validated.links[i].publications) :
                LET p == fv.validated.links[i].publications[j]
                IN  /\ p.confidence_tier = "high" <=> p.confidence_score >= 70
                    /\ p.confidence_tier = "medium" <=>
                          (p.confidence_score >= 50 /\ p.confidence_score < 70)
                    /\ p.confidence_tier = "low" <=> p.confidence_score < 50

\* a fallback result holding an upgraded publication whose candidate scored
\* 49, next to publications that kept the scores 69 and 70
C37_Witness ==
    /\ FvFellBack
    /\ \E i \in 1..Len(fv.validated.links) :
          LET pubs == fv.validated.links[i].publications
          IN  /\ \E j \in 1..Len(pubs) :
                    /\ FvScore(i, j) = 49 /\ FvConfirmed(i, pubs[j].pmid)
                    /\ pubs[j].confidence_tier = "high" /\ pubs[j].confidence_score = 80
              /\ \E j \in 1..Len(pubs) :
                    pubs[j].confidence_tier = "medium" /\ pubs[j].confidence_score = 69
              /\ \E j \in 1..Len(pubs) :
                    /\ ~FvConfirmed(i, pubs[j].pmid)
                    /\ pubs[j].confidence_tier = "high" /\ pubs[j].confidence_score = 70

\* ---- C38: on the free-text path a registry search that fails at transport
\* level (a timeout, a refused connection, an HTTP error status) ends the run
\* as an empty search result does: the status event, the 'No clinical trials
\* found' message, done, and no error event; the error event 'Failed to fetch
\* trials' is emitted only when the search call itself raises.
C38_TransportFailed(r) == r.net \in {"timeout", "refused"} \/ (r.net = "ok" /\ r.status >= 400)

C38_EmptyResult(r) == r.net = "ok" /\ r.status = 200 /\ r.body = "empty"

C38_HasError == \E i \in 1..Len(tc.events) : tc.events[i] = LError

C38_FailedSearchEndsAsEmpty ==
    (tc.pc = "done" /\ tc.tool = "fetch_trials" /\ tc.caller = "linking_search") =>
        /\ (C38_TransportFailed(tc.resps[1]) \/ C38_EmptyResult(tc.resps[1])) =>
              /\ tc.events = << LStatus("Linking Orchestrator"),
                               LAgent("Linking Orchestrator", "No clinical trials found"),
                               LDone >>
              /\ ~C38_HasError
        /\ C38_HasError <=> tc.out.st = "raised"

C38_Witness ==
    /\ tc.pc = "done" /\ tc.tool = "fetch_trials" /\ tc.caller = "linking_search"
    /\ tc.resps[1].net = "ok" /\ tc.resps[1].status = 500
    /\ tc.events[Len(tc.events)] = LDone

\* ---- C39: when every enrichment fails, or the supplied ids are all empty,
\* the linking run still completes: candidate discovery and full-text
\* extraction do no work, no gateway call is made, and the result event
\* carries an empty trial_links with the summary 'No trials to validate.',
\* followed by done.
C39_NothingEnriched ==
    /\ EnrichmentDone
    /\ \A i \in 1..Len(l_enriched) : l_enriched[i].error

====
